---- MODULE Spec2Model ----
(***************************************************************************)
(* Model of the vector-text crates: the three text renderers               *)
(* (crates/{borland,hershey,newstroke}/src/lib.rs) and the NewStroke glyph *)
(* composer of crates/newstroke/build.rs.                                  *)
(*                                                                         *)
(* A font table [Option<Glyph>; N] is a function whose DOMAIN is the set   *)
(* of slots holding Some(glyph); a slot below N outside the DOMAIN is None.*)
(* Rust integer arithmetic keeps its width: an overflowing operation       *)
(* panics when the build has overflow checks and wraps otherwise; the      *)
(* variable overflow_checks is that build profile.                         *)
(***************************************************************************)
EXTENDS Integers, Sequences, FiniteSets, TLC

VARIABLES
    overflow_checks, \* build profile: do arithmetic overflows panic?
    font,            \* render_text: the font selector and its static tables
    text,            \* render_text: the input, a sequence of codepoints
    pos,             \* render_text: number of characters taken from text.chars()
    x_idx,           \* render_text: the running advance (i16)
    result,          \* render_text: the Vec<Point> built so far
    r_status,        \* render_text: "running", "done" or the panic that ended it
    raw,             \* newstroke build: the symbol table (HashMap<String, Symbol>)
    g_call,          \* newstroke build: the glyph-building call made, if any
    g_ret,           \* newstroke build: what that call returned, or its panic
    out,             \* parse_charlist: the FontFile being filled
    codepoint,       \* parse_charlist: the codepoint cursor
    line,            \* parse_charlist: the tokens of the line processed last
    lineno,          \* parse_charlist: number of lines taken from input.lines()
    cl_status,       \* parse_charlist: "running", "done" or the panic that ended it
    lib_taken,       \* parse_lib_file: the lines taken from input.lines() so far
    glyphs,          \* parse_lib_file: the HashMap<String, Symbol> being filled
    current,         \* parse_lib_file: the open symbol, <<>> for None, <<symbol>> for Some
    lib_status,      \* parse_lib_file: "running", "ok" or the Err returned
    input,           \* parse_chrfile: the byte buffer (cur.buf)
    cur_pos,         \* parse_chrfile: cur.pos
    chr,             \* parse_chrfile: its locals and the place reached in its body
    file,            \* parse_chrfile: the FontFile being filled
    chr_status,      \* parse_chrfile: "running", "done" or the panic that ended it
    hf_lines,        \* load_file: the physical lines not yet taken from file.lines()
    full,            \* load_file: the logical record formed last
    hf_result,       \* load_file: the FontFile being filled
    hf_status,       \* load_file: "running", "done" or the panic that ended it
    map_line,        \* load_mapping: the line processed last
    map_count,       \* load_mapping: number of lines taken from file.lines()
    mapping,         \* load_mapping: the FontMapping being filled (result)
    map_codepoint,   \* load_mapping: the running output codepoint
    map_status,      \* load_mapping: "running" or "done"
    coord_buf,       \* Cursor::read_coord: the buffer under the cursor
    coord_call,      \* Cursor::read_coord: the call made and what it returned
    coord_status     \* Cursor::read_coord: "running", "done" or the panic

rvars == <<font, text, pos, x_idx, result, r_status>>
gvars == <<g_call, g_ret>>
cvars == <<out, codepoint, line, lineno, cl_status>>
lvars == <<lib_taken, glyphs, current, lib_status>>
bvars == <<input, cur_pos, chr, file, chr_status>>
hvars == <<hf_lines, full, hf_result, hf_status>>
mvars == <<map_line, map_count, mapping, map_codepoint, map_status>>
pvars == <<coord_buf, coord_call, coord_status>>
dvars == <<lvars, bvars, hvars, mvars, pvars>>
vars == <<overflow_checks, rvars, raw, gvars, cvars, dvars>>

(***************************************************************************)
(* Bounds of the model                                                     *)
(***************************************************************************)
MaxTextLen == 3
LongLen == 260
MaxLines == 2
MaxLibLines == 5
MaxChars == 2
MaxFileLines == 3
MaxMapLines == 3

(***************************************************************************)
(* Fixed-width integers                                                    *)
(***************************************************************************)
I8 == -128 .. 127
I16 == -32768 .. 32767
W8(n) == ((n + 128) % 256) - 128
W16(n) == ((n + 32768) % 65536) - 32768

(***************************************************************************)
(* Program constants                                                       *)
(***************************************************************************)
BORLAND_NUM_GLYPHS == 256
HERSHEY_NUM_GLYPHS == 4000
NUM_GLYPHS == 10239

(***************************************************************************)
(* Glyph data the renderers are run on                                     *)
(***************************************************************************)
Pt(x, y, pen) == [x |-> x, y |-> y, pen |-> pen]
Gl(l, r, s) == [left |-> l, right |-> r, strokes |-> s]

GlyphA == Gl(0, 10, <<Pt(0, 0, FALSE), Pt(5, -7, TRUE), Pt(10, 0, TRUE)>>)
GlyphB == Gl(2, 8, <<Pt(2, 1, FALSE), Pt(8, 1, TRUE)>>)
GlyphB0 == Gl(0, 8, <<Pt(2, 1, FALSE), Pt(8, 1, TRUE)>>)
GlyphW == Gl(-128, 127, <<Pt(127, 3, FALSE)>>)
GlyphW0 == Gl(0, 127, <<Pt(2, 3, FALSE)>>)
GlyphZ == Gl(-1, 1, <<Pt(0, 0, FALSE)>>)

\* Codepoints used in texts: letters, digits, the first codepoint past the
\* 256-entry tables and the one equal to the NewStroke table size.
Ch == [A |-> 65, B |-> 66, C |-> 67, W |-> 87, d0 |-> 48, d1 |-> 49, high |-> 256, last |-> 10239]

BorlandFonts ==
    { [kind |-> "borland", table |-> (Ch.A :> GlyphA) @@ (Ch.B :> GlyphB0) @@ (Ch.W :> GlyphW0)] }

HersheyFonts ==
    { [kind |-> "hershey",
       mapping |-> (Ch.A :> 1) @@ (Ch.B :> 2) @@ (Ch.W :> 7) @@ (Ch.d0 :> 3) @@ (Ch.d1 :> 5000),
       table |-> (1 :> GlyphA) @@ (2 :> GlyphB) @@ (7 :> GlyphW) @@ t0]
      : t0 \in { <<>>, (0 :> GlyphZ) } }

NewstrokeFonts ==
    { [kind |-> "newstroke", table |-> (Ch.A :> GlyphA) @@ (Ch.B :> GlyphB) @@ (Ch.W :> GlyphW)] }

Fonts == BorlandFonts \cup HersheyFonts \cup NewstrokeFonts

Alphabet == {Ch.A, Ch.B, Ch.C, Ch.d0, Ch.d1, Ch.high, Ch.last}

RECURSIVE SeqsUpTo(_, _)
SeqsUpTo(S, n) ==
    IF n = 0 THEN {<<>>}
    ELSE LET shorter == SeqsUpTo(S, n - 1)
         IN shorter \cup {Append(s, c) : s \in {t \in shorter : Len(t) = n - 1}, c \in S}

LongText == [i \in 1 .. LongLen |-> Ch.W]
Texts == SeqsUpTo(Alphabet, MaxTextLen) \cup {LongText}

(***************************************************************************)
(* Table lookups of the three renderers                                    *)
(***************************************************************************)
IndexPanic == [tag |-> "panic"]
None == [tag |-> "none"]
Some(g) == [tag |-> "some", glyph |-> g]

\* table[character as usize] on a [Option<Glyph>; 256]
BorlandLookup(f, c) ==
    IF c >= BORLAND_NUM_GLYPHS THEN IndexPanic
    ELSE IF c \in DOMAIN f.table THEN Some(f.table[c]) ELSE None

\* mapping[character as usize] on a [u16; 256] whose unset entries are 0
MappingAt(f, c) == IF c \in DOMAIN f.mapping THEN f.mapping[c] ELSE 0

\* HersheyLookup without the test hershey_id == 0
HersheyLookup_NoZeroTest(f, c) ==
    IF c > 255 THEN None
    ELSE LET hershey_id == MappingAt(f, c)
         IN IF hershey_id >= HERSHEY_NUM_GLYPHS THEN None
            ELSE IF hershey_id \in DOMAIN f.table THEN Some(f.table[hershey_id]) ELSE None

HersheyLookup(f, c) ==
    IF c > 255 THEN None
    ELSE LET hershey_id == MappingAt(f, c)
         IN IF hershey_id = 0 \/ hershey_id >= HERSHEY_NUM_GLYPHS THEN None
            ELSE IF hershey_id \in DOMAIN f.table THEN Some(f.table[hershey_id]) ELSE None

\* NEWSTROKE_FONT[character as usize] on a [Option<Glyph>; NUM_GLYPHS]
NewstrokeLookup(f, c) ==
    IF c >= NUM_GLYPHS THEN IndexPanic
    ELSE IF c \in DOMAIN f.table THEN Some(f.table[c]) ELSE None

Lookup(f, c) ==
    CASE f.kind = "borland" -> BorlandLookup(f, c)
      [] f.kind = "hershey" -> HersheyLookup(f, c)
      [] f.kind = "newstroke" -> NewstrokeLookup(f, c)

(***************************************************************************)
(* The body of the loop over text.chars()                                  *)
(***************************************************************************)
\* point.x as i16 - glyph.left as i16 + x_idx, before the i16 addition is narrowed
PointX(g, p, x) == (p.x - g.left) + x

\* result.extend(glyph.strokes.iter().map(...))
GlyphPoints(g, x) ==
    [k \in 1 .. Len(g.strokes) |->
        [x |-> W16(PointX(g, g.strokes[k], x)), y |-> g.strokes[k].y, pen |-> g.strokes[k].pen]]

\* does drawing g at x, or the advance after it, leave the i16 range?
GlyphOverflows(g, x) ==
    \/ \E k \in 1 .. Len(g.strokes) : PointX(g, g.strokes[k], x) \notin I16
    \/ x + (g.right - g.left) \notin I16

\* RenderChar with the advance taken as glyph.right alone
RenderChar_NoLeft(st, lk, checks) ==
    IF lk.tag = "panic" THEN [st EXCEPT !.status = "panic_index"]
    ELSE IF lk.tag = "none" THEN st
    ELSE LET g == lk.glyph
         IN IF checks /\ GlyphOverflows(g, st.x_idx)
            THEN [st EXCEPT !.status = "panic_overflow"]
            ELSE [st EXCEPT !.result = st.result \o GlyphPoints(g, st.x_idx),
                            !.x_idx = W16(st.x_idx + g.right)]

\* one loop iteration on the state st = [x_idx, result, status], given the lookup
RenderChar(st, lk, checks) ==
    IF lk.tag = "panic" THEN [st EXCEPT !.status = "panic_index"]
    ELSE IF lk.tag = "none" THEN st
    ELSE LET g == lk.glyph
         IN IF checks /\ GlyphOverflows(g, st.x_idx)
            THEN [st EXCEPT !.status = "panic_overflow"]
            ELSE [st EXCEPT !.result = st.result \o GlyphPoints(g, st.x_idx),
                            !.x_idx = W16(st.x_idx + (g.right - g.left))]

\* render_text as a function: the loop folded over the text
RECURSIVE RenderFrom(_, _, _, _)
RenderFrom(f, t, st, checks) ==
    IF st.status # "running" THEN st
    ELSE IF t = <<>> THEN [st EXCEPT !.status = "done"]
    ELSE RenderFrom(f, Tail(t), RenderChar(st, Lookup(f, Head(t)), checks), checks)

RenderStart == [x_idx |-> 0, result |-> <<>>, status |-> "running"]
RenderText(f, t, checks) == RenderFrom(f, t, RenderStart, checks)

(***************************************************************************)
(* render_text as a state machine: one action per loop iteration           *)
(***************************************************************************)
\* the parts of the state a specification does not run
RenderIdle ==
    /\ font = [kind |-> "none"] /\ text = <<>> /\ pos = 0
    /\ x_idx = 0 /\ result = <<>> /\ r_status = "idle"
GlyphIdle == g_call = [fn |-> "none"] /\ g_ret = [tag |-> "idle"]
CharlistIdle ==
    /\ out = <<>> /\ codepoint = 0 /\ line = <<>> /\ lineno = 0 /\ cl_status = "idle"
LibIdle == lib_taken = <<>> /\ glyphs = <<>> /\ current = <<>> /\ lib_status = "idle"
ChrIdle ==
    /\ input = <<>> /\ cur_pos = 0 /\ chr = [pc |-> "idle"] /\ file = <<>>
    /\ chr_status = "idle"
HersheyIdle == hf_lines = <<>> /\ full = <<>> /\ hf_result = <<>> /\ hf_status = "idle"
CoordIdle == coord_buf = <<>> /\ coord_call = [fn |-> "none"] /\ coord_status = "idle"
MappingIdle ==
    /\ map_line = <<>> /\ map_count = 0 /\ mapping = <<>> /\ map_codepoint = 0
    /\ map_status = "idle"

RenderInit ==
    /\ overflow_checks \in BOOLEAN
    /\ raw = <<>> /\ GlyphIdle /\ CharlistIdle
    /\ LibIdle /\ ChrIdle /\ HersheyIdle /\ MappingIdle /\ CoordIdle
    /\ font \in Fonts
    /\ text \in Texts
    /\ pos = 0
    /\ x_idx = 0
    /\ result = <<>>
    /\ r_status = "running"

Iterate(lk) ==
    LET st == RenderChar([x_idx |-> x_idx, result |-> result, status |-> r_status],
                         lk, overflow_checks)
    IN /\ pos' = pos + 1
       /\ x_idx' = st.x_idx
       /\ result' = st.result
       /\ r_status' = st.status
       /\ UNCHANGED <<font, text, overflow_checks, raw, gvars, cvars, dvars>>

BorlandRenderChar ==
    /\ r_status = "running" /\ pos < Len(text) /\ font.kind = "borland"
    /\ Iterate(BorlandLookup(font, text[pos + 1]))

HersheyRenderChar ==
    /\ r_status = "running" /\ pos < Len(text) /\ font.kind = "hershey"
    /\ Iterate(HersheyLookup(font, text[pos + 1]))

NewstrokeRenderChar ==
    /\ r_status = "running" /\ pos < Len(text) /\ font.kind = "newstroke"
    /\ Iterate(NewstrokeLookup(font, text[pos + 1]))

RenderReturn ==
    /\ r_status = "running" /\ pos = Len(text)
    /\ r_status' = "done"
    /\ UNCHANGED <<font, text, pos, x_idx, result, overflow_checks, raw, gvars, cvars, dvars>>

RenderNext == BorlandRenderChar \/ HersheyRenderChar \/ NewstrokeRenderChar \/ RenderReturn

SpecRender == RenderInit /\ [][RenderNext]_vars

(***************************************************************************)
(* NewStroke composer: symbols, transforms, glyph building                 *)
(* (crates/newstroke/build.rs).  A string is a sequence of characters.     *)
(***************************************************************************)
BASE == 9
CAP_HEIGHT == -21
X_HEIGHT == -14
SYM_HEIGHT == -16
SUP_OFFSET == -13
SUB_OFFSET == 6

Tr(sx, sy, oy) == [scale_x |-> sx, scale_y |-> sy, offset_y |-> oy]
Identity == Tr(1, 1, 0)

\* the match on the first character in split_transform: the sigils and their
\* transforms ("grave" stands for the grave accent U+0060)
SigilTransform ==
    ("!" :> Tr(-1, 1, 0)) @@ ("-" :> Tr(1, -1, X_HEIGHT)) @@ ("=" :> Tr(1, -1, CAP_HEIGHT))
    @@ ("~" :> Tr(1, -1, SYM_HEIGHT)) @@ ("+" :> Tr(-1, -1, X_HEIGHT))
    @@ ("%" :> Tr(-1, -1, CAP_HEIGHT)) @@ ("*" :> Tr(-1, -1, SYM_HEIGHT))
    @@ ("^" :> Tr(1, 1, SUP_OFFSET)) @@ ("grave" :> Tr(-1, 1, SUP_OFFSET))
    @@ ("." :> Tr(1, 1, SUB_OFFSET)) @@ ("," :> Tr(-1, 1, SUB_OFFSET))

split_transform(name) ==
    IF name # <<>> /\ Head(name) \in DOMAIN SigilTransform
    THEN [tr |-> SigilTransform[Head(name)], name |-> Tail(name)]
    ELSE [tr |-> Identity, name |-> name]

\* one point of render_glyph: px = x * scale_x + offset_x,
\* py = y * scale_y + offset_y + BASE, every operation in i8
RenderPoint(p, tr, offset_x, offset_y, first_point) ==
    [x |-> W8(W8(p[1] * tr.scale_x) + offset_x),
     y |-> W8(W8(W8(p[2] * tr.scale_y) + offset_y) + BASE),
     pen |-> ~first_point]

PointOverflows(p, tr, offset_x, offset_y) ==
    \/ p[1] * tr.scale_x \notin I8
    \/ W8(p[1] * tr.scale_x) + offset_x \notin I8
    \/ p[2] * tr.scale_y \notin I8
    \/ W8(p[2] * tr.scale_y) + offset_y \notin I8
    \/ W8(W8(p[2] * tr.scale_y) + offset_y) + BASE \notin I8

RECURSIVE RenderStrokes(_, _, _, _)
RenderStrokes(strokes, tr, offset_x, offset_y) ==
    IF strokes = <<>> THEN <<>>
    ELSE [k \in 1 .. Len(Head(strokes)) |->
             RenderPoint(Head(strokes)[k], tr, offset_x, offset_y, k = 1)]
         \o RenderStrokes(Tail(strokes), tr, offset_x, offset_y)

\* render_glyph: the points, and whether an i8 operation overflowed on the way
render_glyph(sym, tr, offset_x, offset_y) ==
    [strokes |-> RenderStrokes(sym.strokes, tr, offset_x, offset_y),
     ovf |-> \E i \in 1 .. Len(sym.strokes) : \E k \in 1 .. Len(sym.strokes[i]) :
                 PointOverflows(sym.strokes[i][k], tr, offset_x, offset_y)]

\* transform_metrics with the bearings negated but not swapped
transform_metrics_NoSwap(sym, tr) ==
    IF tr.scale_x >= 0
    THEN [left |-> sym.left, right |-> sym.right, ovf |-> FALSE]
    ELSE [left |-> W8(-sym.left), right |-> W8(-sym.right),
          ovf |-> -sym.right \notin I8 \/ -sym.left \notin I8]

transform_metrics(sym, tr) ==
    IF tr.scale_x >= 0
    THEN [left |-> sym.left, right |-> sym.right, ovf |-> FALSE]
    ELSE [left |-> W8(-sym.right), right |-> W8(-sym.left),
          ovf |-> -sym.right \notin I8 \/ -sym.left \notin I8]

Panic(why) == [tag |-> why]

\* build_single: Some(glyph), None (symbol not found, reported), or a panic
build_single(symbols, name, checks) ==
    LET st == split_transform(name)
    IN IF st.name \in DOMAIN symbols
       THEN LET base == symbols[st.name]
                strokes == render_glyph(base, st.tr, 0, 0)
                metrics == transform_metrics(base, st.tr)
            IN IF checks /\ (strokes.ovf \/ metrics.ovf)
               THEN Panic("panic_overflow")
               ELSE Some(Gl(metrics.left, metrics.right, strokes.strokes))
       ELSE None

\* str.splitn(2, sep): the part before the first sep, and the part after it if any
RECURSIVE FindFirst(_, _, _)
FindFirst(str, sep, i) ==
    IF i > Len(str) THEN 0
    ELSE IF str[i] = sep THEN i
    ELSE FindFirst(str, sep, i + 1)

SplitN2(str, sep) ==
    LET i == FindFirst(str, sep, 1)
    IN IF i = 0 THEN [first |-> str, has_rest |-> FALSE, rest |-> <<>>]
       ELSE [first |-> SubSeq(str, 1, i - 1), has_rest |-> TRUE,
             rest |-> SubSeq(str, i + 1, Len(str))]

\* parts.join(" ")
RECURSIVE JoinSpace(_)
JoinSpace(toks) ==
    IF toks = <<>> THEN <<>>
    ELSE IF Len(toks) = 1 THEN toks[1]
    ELSE toks[1] \o <<" ">> \o JoinSpace(Tail(toks))

\* the offset arithmetic of anchor_offset on the two anchors, in i8
OffsetOf(b, a, base_tr, accent_tr) ==
    LET bxs == b[1] * base_tr.scale_x
        axs == a[1] * accent_tr.scale_x
        bys == b[2] * base_tr.scale_y
        ays == a[2] * accent_tr.scale_y
        oy1 == W8(bys) + base_tr.offset_y
        oy2 == W8(oy1) - W8(ays)
        oy3 == W8(oy2) - accent_tr.offset_y
    IN [ox |-> W8(W8(bxs) - W8(axs)),
        oy |-> W8(oy3),
        ovf |-> \/ bxs \notin I8 \/ axs \notin I8 \/ W8(bxs) - W8(axs) \notin I8
                \/ bys \notin I8 \/ oy1 \notin I8 \/ ays \notin I8
                \/ oy2 \notin I8 \/ oy3 \notin I8]

\* anchor_offset taking a missing accent anchor for an error as well
anchor_offset_StrictAccent(base, accent, anchor, base_tr, accent_tr) ==
    IF ~anchor.some THEN [tag |-> "ok", ox |-> 0, oy |-> 0, ovf |-> FALSE]
    ELSE LET parts == SplitN2(anchor.str, "=")
             base_key == parts.first
             accent_key == IF parts.has_rest THEN parts.rest ELSE base_key
         IN IF base_key \notin DOMAIN base.anchors \/ accent_key \notin DOMAIN accent.anchors
            THEN Panic("panic_anchor")
            ELSE [tag |-> "ok"] @@ OffsetOf(base.anchors[base_key], accent.anchors[accent_key],
                                            base_tr, accent_tr)

\* anchor_offset; anchor is an Option<&str>: [some |-> FALSE] or [some |-> TRUE, str |-> ..]
anchor_offset(base, accent, anchor, base_tr, accent_tr) ==
    IF ~anchor.some THEN [tag |-> "ok", ox |-> 0, oy |-> 0, ovf |-> FALSE]
    ELSE LET parts == SplitN2(anchor.str, "=")
             base_key == parts.first
             accent_key == IF parts.has_rest THEN parts.rest ELSE base_key
         IN IF base_key \notin DOMAIN base.anchors THEN Panic("panic_anchor")
            ELSE [tag |-> "ok"] @@
                 OffsetOf(base.anchors[base_key],
                          IF accent_key \in DOMAIN accent.anchors
                          THEN accent.anchors[accent_key] ELSE <<0, 0>>,
                          base_tr, accent_tr)

Min(a, b) == IF a <= b THEN a ELSE b
Max(a, b) == IF a >= b THEN a ELSE b

\* compose_two with the accent rendered at the origin of the base
compose_two_NoOffset(symbols, a, b, checks) ==
    LET ta == split_transform(a)
        b_parts == SplitN2(b, " ")
        anchor == [some |-> b_parts.has_rest, str |-> b_parts.rest]
        tb == split_transform(b_parts.first)
    IN IF ta.name \notin DOMAIN symbols \/ tb.name \notin DOMAIN symbols
       THEN Panic("panic_symbol")
       ELSE LET base == symbols[ta.name]
                acc == symbols[tb.name]
                off == anchor_offset(base, acc, anchor, ta.tr, tb.tr)
            IN IF off.tag # "ok" THEN off
               ELSE LET s1 == render_glyph(base, ta.tr, 0, 0)
                        s2 == render_glyph(acc, tb.tr, 0, 0)
                        m1 == transform_metrics(base, ta.tr)
                        m2 == transform_metrics(acc, tb.tr)
                    IN IF checks /\ (off.ovf \/ s1.ovf \/ s2.ovf \/ m1.ovf \/ m2.ovf
                                     \/ m2.left + off.ox \notin I8
                                     \/ m2.right + off.ox \notin I8)
                       THEN Panic("panic_overflow")
                       ELSE Some(Gl(Min(m1.left, W8(m2.left + off.ox)),
                                    Max(m1.right, W8(m2.right + off.ox)),
                                    s1.strokes \o s2.strokes))

\* compose_two; b is "accent" or "accent anchor"
compose_two(symbols, a, b, checks) ==
    LET ta == split_transform(a)
        b_parts == SplitN2(b, " ")
        anchor == [some |-> b_parts.has_rest, str |-> b_parts.rest]
        tb == split_transform(b_parts.first)
    IN IF ta.name \notin DOMAIN symbols \/ tb.name \notin DOMAIN symbols
       THEN Panic("panic_symbol")
       ELSE LET base == symbols[ta.name]
                acc == symbols[tb.name]
                off == anchor_offset(base, acc, anchor, ta.tr, tb.tr)
            IN IF off.tag # "ok" THEN off
               ELSE LET s1 == render_glyph(base, ta.tr, 0, 0)
                        s2 == render_glyph(acc, tb.tr, off.ox, off.oy)
                        m1 == transform_metrics(base, ta.tr)
                        m2 == transform_metrics(acc, tb.tr)
                    IN IF checks /\ (off.ovf \/ s1.ovf \/ s2.ovf \/ m1.ovf \/ m2.ovf
                                     \/ m2.left + off.ox \notin I8
                                     \/ m2.right + off.ox \notin I8)
                       THEN Panic("panic_overflow")
                       ELSE Some(Gl(Min(m1.left, W8(m2.left + off.ox)),
                                    Max(m1.right, W8(m2.right + off.ox)),
                                    s1.strokes \o s2.strokes))

(***************************************************************************)
(* Symbol tables and symbol references the composer is run on              *)
(***************************************************************************)
Sym(n, strokes, l, r, anchors) ==
    [name |-> n, strokes |-> strokes, left |-> l, right |-> r, anchors |-> anchors]

NameA == <<"A">>
NameB == <<"B">>
NameN == <<"N">>
PinX == <<"X">>
PinY == <<"Y">>
Bearings == {-128, -2, 6, 127}

StrokesA == << <<<<0, 0>>, <<4, -8>>, <<8, 0>>>>, <<<<2, -4>>, <<6, -4>>>> >>
StrokesB == << <<<<1, -10>>, <<3, -12>>>> >>
SymA(l, r) == Sym(NameA, StrokesA, l, r, PinX :> <<4, -8>>)
SymB == Sym(NameB, StrokesB, -1, 3, PinY :> <<2, -9>>)
SymB2 == Sym(NameB, StrokesB, -1, 3, (PinX :> <<1, -9>>) @@ (PinY :> <<-1, 2>>))

TableOf(a, b) == (NameA :> a) @@ (NameB :> b)

SymbolTables ==
    { TableOf(SymA(l, r), SymB) : l \in Bearings, r \in Bearings }
    \cup { TableOf(Sym(NameA, << <<<<-128, 127>>, <<127, -128>>>> >>, -2, 6, PinX :> <<4, -8>>), SymB),
           TableOf(Sym(NameA, StrokesA, -2, 6, PinX :> <<-128, -128>>), SymB2),
           TableOf(Sym(NameA, StrokesA, -2, 6, PinX :> <<120, 100>>), SymB2),
           TableOf(SymA(-2, 6), SymB2),
           TableOf(Sym(NameA, StrokesA, -2, 6, <<>>), SymB2) }

Sigils == DOMAIN SigilTransform
SingleRefs == { pre \o n : pre \in {<<>>} \cup {<<c>> : c \in Sigils}, n \in {NameA, NameB, NameN} }
BaseRefs == { NameA, <<"!">> \o NameA, <<"-">> \o NameA, <<"^">> \o NameA, NameN }
AccentRefs == { NameB, <<"!">> \o NameB, <<".">> \o NameB, <<"~">> \o NameB, NameN }
AnchorSuffixes ==
    { <<>>, PinX, PinY, PinX \o <<"=">> \o PinY, PinY \o <<"=">> \o PinX,
      PinX \o <<"=">> \o PinX, PinX \o <<" ">> \o PinY }
SecondArgs ==
    { IF sfx = <<>> THEN acc ELSE acc \o <<" ">> \o sfx : acc \in AccentRefs, sfx \in AnchorSuffixes }

(***************************************************************************)
(* build_single and compose_two as calls on drawn inputs                   *)
(***************************************************************************)
GlyphInit ==
    /\ overflow_checks \in BOOLEAN
    /\ RenderIdle /\ CharlistIdle
    /\ LibIdle /\ ChrIdle /\ HersheyIdle /\ MappingIdle /\ CoordIdle
    /\ raw \in SymbolTables
    /\ g_call = [fn |-> "none"]
    /\ g_ret = [tag |-> "idle"]

CallBuildSingle ==
    /\ g_call.fn = "none"
    /\ \E name \in SingleRefs :
          /\ g_call' = [fn |-> "build_single", name |-> name]
          /\ g_ret' = build_single(raw, name, overflow_checks)
    /\ UNCHANGED <<overflow_checks, rvars, raw, cvars, dvars>>

CallComposeTwo ==
    /\ g_call.fn = "none"
    /\ \E a \in BaseRefs, b \in SecondArgs :
          /\ g_call' = [fn |-> "compose_two", a |-> a, b |-> b]
          /\ g_ret' = compose_two(raw, a, b, overflow_checks)
    /\ UNCHANGED <<overflow_checks, rvars, raw, cvars, dvars>>

GlyphNext == CallBuildSingle \/ CallComposeTwo

SpecGlyph == GlyphInit /\ [][GlyphNext]_vars

(***************************************************************************)
(* parse_charlist: the character-list script.  A line is the sequence of   *)
(* its whitespace-separated tokens, a token a sequence of characters.      *)
(***************************************************************************)
TokStartchar == <<"s", "t", "a", "r", "t", "c", "h", "a", "r">>
TokFont == <<"f", "o", "n", "t">>
TokSkipcodes == <<"s", "k", "i", "p", "c", "o", "d", "e", "s">>
TokPlus == <<"+">>
TokPlusW == <<"+", "w">>
TokPlusP == <<"+", "p">>
TokPlusOpen == <<"+", "(">>
TokPlusBar == <<"+", "|">>
TokPlusClose == <<"+", ")">>
TokSlashes == <<"/", "/">>

DigitVal ==
    ("0" :> 0) @@ ("1" :> 1) @@ ("2" :> 2) @@ ("3" :> 3) @@ ("4" :> 4)
    @@ ("5" :> 5) @@ ("6" :> 6) @@ ("7" :> 7) @@ ("8" :> 8) @@ ("9" :> 9)

RECURSIVE DecimalValue(_)
DecimalValue(digits) ==
    IF digits = <<>> THEN 0
    ELSE 10 * DecimalValue(SubSeq(digits, 1, Len(digits) - 1)) + DigitVal[digits[Len(digits)]]

\* str.parse::<usize>(): decimal digits after an optional plus sign
ParseUsize(tok) ==
    LET digits == IF tok # <<>> /\ Head(tok) = "+" THEN Tail(tok) ELSE tok
    IN IF digits # <<>> /\ \A i \in 1 .. Len(digits) : digits[i] \in DOMAIN DigitVal
       THEN [ok |-> TRUE, value |-> DecimalValue(digits)]
       ELSE [ok |-> FALSE]

\* line.is_empty() || line.starts_with('#') || line.starts_with("//")
IsBlankOrComment(l) ==
    \/ l = <<>>
    \/ Head(l)[1] = "#"
    \/ Len(Head(l)) >= 2 /\ SubSeq(Head(l), 1, 2) = TokSlashes

\* line.splitn(2, '#').next() and split_whitespace(), on the tokens
RECURSIVE StripComment(_)
StripComment(l) ==
    IF l = <<>> THEN <<>>
    ELSE LET i == FindFirst(Head(l), "#", 1)
         IN IF i = 0 THEN <<Head(l)>> \o StripComment(Tail(l))
            ELSE IF i = 1 THEN <<>>
            ELSE <<SubSeq(Head(l), 1, i - 1)>>

\* Arm with the catch-all arm taken for an ignored line
Arm_OtherIgnored(l) ==
    IF IsBlankOrComment(l) \/ StripComment(l) = <<>> THEN "skip"
    ELSE LET cmd == StripComment(l)[1]
         IN CASE cmd = TokStartchar -> "startchar"
              [] cmd = TokFont -> "font"
              [] cmd = TokPlus -> "+"
              [] cmd \in {TokPlusW, TokPlusP} -> "+w+p"
              [] cmd = TokPlusOpen -> "+("
              [] cmd \in {TokPlusBar, TokPlusClose} -> "+|+)"
              [] cmd = TokSlashes -> "//"
              [] cmd = TokSkipcodes -> "skipcodes"
              [] OTHER -> "font"

\* the arm of match on parts[0] a line takes
Arm(l) ==
    IF IsBlankOrComment(l) \/ StripComment(l) = <<>> THEN "skip"
    ELSE LET cmd == StripComment(l)[1]
         IN CASE cmd = TokStartchar -> "startchar"
              [] cmd = TokFont -> "font"
              [] cmd = TokPlus -> "+"
              [] cmd \in {TokPlusW, TokPlusP} -> "+w+p"
              [] cmd = TokPlusOpen -> "+("
              [] cmd \in {TokPlusBar, TokPlusClose} -> "+|+)"
              [] cmd = TokSlashes -> "//"
              [] cmd = TokSkipcodes -> "skipcodes"
              [] OTHER -> "other"

Store(table, cp, g) == [c \in DOMAIN table \cup {cp} |-> IF c = cp THEN g ELSE table[c]]

\* the "startchar" arm
ArmStartchar(st, parts) ==
    IF Len(parts) < 2 THEN [st EXCEPT !.status = "panic_missing_value"]
    ELSE LET v == ParseUsize(parts[2])
         IN IF ~v.ok THEN [st EXCEPT !.status = "panic_invalid_value"]
            ELSE IF v.value >= NUM_GLYPHS
            THEN [st EXCEPT !.codepoint = v.value, !.status = "panic_startchar_range"]
            ELSE [st EXCEPT !.codepoint = v.value]

\* StoreGlyph without the advance of the cursor
StoreGlyph_NoAdvance(st, glyph) ==
    IF glyph.tag = "some"
    THEN [st EXCEPT !.out = Store(st.out, st.codepoint, glyph.glyph)]
    ELSE IF glyph.tag = "none" THEN [st EXCEPT !.status = "panic_no_glyph"]
    ELSE [st EXCEPT !.status = glyph.tag]

\* out[codepoint] = Some(glyph.expect("failed to create glyph")); codepoint += 1
StoreGlyph(st, glyph) ==
    IF glyph.tag = "some"
    THEN [st EXCEPT !.out = Store(st.out, st.codepoint, glyph.glyph),
                    !.codepoint = st.codepoint + 1]
    ELSE IF glyph.tag = "none" THEN [st EXCEPT !.status = "panic_no_glyph"]
    ELSE [st EXCEPT !.status = glyph.tag]

\* the "+" arm; rest is the tokens after the "+"
ArmPlus(st, rest, symbols, checks) ==
    IF st.codepoint >= NUM_GLYPHS THEN st
    ELSE IF rest = <<>> THEN [st EXCEPT !.status = "panic_missing_base"]
    ELSE IF Len(rest) > 1
    THEN StoreGlyph(st, compose_two(symbols, rest[1], JoinSpace(Tail(rest)), checks))
    ELSE StoreGlyph(st, build_single(symbols, rest[1], checks))

\* the "skipcodes" arm
ArmSkipcodes(st, parts) ==
    IF Len(parts) < 2 THEN [st EXCEPT !.status = "panic_missing_value"]
    ELSE LET v == ParseUsize(parts[2])
         IN IF ~v.ok THEN [st EXCEPT !.status = "panic_invalid_value"]
            ELSE [st EXCEPT !.codepoint = st.codepoint + v.value]

\* MatchArm with the continuing and closing group forms advancing the cursor
MatchArm_GroupAdvances(st, arm, parts, symbols, checks) ==
    CASE arm = "skip" -> st
      [] arm = "startchar" -> ArmStartchar(st, parts)
      [] arm = "font" -> st
      [] arm = "+" -> ArmPlus(st, Tail(parts), symbols, checks)
      [] arm = "+w+p" -> [st EXCEPT !.codepoint = st.codepoint + 1]
      [] arm = "+(" -> [st EXCEPT !.codepoint = st.codepoint + 1]
      [] arm = "+|+)" -> [st EXCEPT !.codepoint = st.codepoint + 1]
      [] arm = "//" -> st
      [] arm = "skipcodes" -> ArmSkipcodes(st, parts)
      [] arm = "other" -> [st EXCEPT !.status = "panic_unsupported_command"]

\* the match on parts[0] of the loop body, on st = [out, codepoint, status]
MatchArm(st, arm, parts, symbols, checks) ==
    CASE arm = "skip" -> st
      [] arm = "startchar" -> ArmStartchar(st, parts)
      [] arm = "font" -> st
      [] arm = "+" -> ArmPlus(st, Tail(parts), symbols, checks)
      [] arm = "+w+p" -> [st EXCEPT !.codepoint = st.codepoint + 1]
      [] arm = "+(" -> [st EXCEPT !.codepoint = st.codepoint + 1]
      [] arm = "+|+)" -> st
      [] arm = "//" -> st
      [] arm = "skipcodes" -> ArmSkipcodes(st, parts)
      [] arm = "other" -> [st EXCEPT !.status = "panic_unsupported_command"]

\* the body of the loop over input.lines()
ParseCharlistLine(st, l, symbols, checks) ==
    MatchArm(st, Arm(l), StripComment(l), symbols, checks)

\* numbers written in scripts
Num0 == <<"0">>
Num1 == <<"1">>
Num65 == <<"6", "5">>
Num10238 == <<"1", "0", "2", "3", "8">>
Num10239 == <<"1", "0", "2", "3", "9">>
Num10240 == <<"1", "0", "2", "4", "0">>
TokBad == <<"x">>

Lines ==
    { <<>>, <<<<"#">>, TokBad>>, <<<<"/", "/", "c">>>>, <<TokBad>>, <<TokFont, TokBad>> }
    \cup { <<TokStartchar>>, <<TokSkipcodes>>, <<TokPlus>> }
    \cup { <<TokStartchar, n>> : n \in {Num0, Num65, Num10238, Num10239, Num10240, TokBad} }
    \cup { <<TokSkipcodes, n>> : n \in {Num1, Num10239, TokBad} }
    \cup { <<TokPlus, ref>> : ref \in {NameA, <<"!">> \o NameA, <<"^">> \o NameA, NameB,
                                       NameN, <<"!">> \o NameN} }
    \cup { <<TokPlus, NameA, <<"#", "c">>>>, <<TokPlus, NameA, NameB>>,
           <<TokPlus, NameA, NameB, PinX>>, <<TokPlus, NameA, NameB, PinY>>,
           <<TokPlus, NameA, NameB, PinX \o <<"=">> \o PinY>>,
           <<TokPlus, NameA, NameN>>, <<TokPlus, NameN, NameB>> }
    \cup { <<cmd, TokBad>> : cmd \in {TokPlusW, TokPlusP, TokPlusOpen, TokPlusBar, TokPlusClose} }

CharlistSymbolTables == { TableOf(SymA(-2, 6), SymB), TableOf(SymA(-128, 6), SymB) }

CharlistInit ==
    /\ overflow_checks \in BOOLEAN
    /\ RenderIdle /\ GlyphIdle
    /\ LibIdle /\ ChrIdle /\ HersheyIdle /\ MappingIdle /\ CoordIdle
    /\ raw \in CharlistSymbolTables
    /\ out = <<>>
    /\ codepoint = 0
    /\ line = <<>>
    /\ lineno = 0
    /\ cl_status = "running"

\* the state after one iteration of the loop, on line l
LineTaken(l, st) ==
    /\ line' = l
    /\ lineno' = lineno + 1
    /\ out' = st.out
    /\ codepoint' = st.codepoint
    /\ cl_status' = st.status
    /\ UNCHANGED <<overflow_checks, rvars, raw, gvars, dvars>>

TakeLine(l) ==
    /\ cl_status = "running"
    /\ lineno < MaxLines
    /\ LineTaken(l, ParseCharlistLine([out |-> out, codepoint |-> codepoint, status |-> cl_status],
                                      l, raw, overflow_checks))

\* the lines of each arm
LinesOf(arm) == { l \in Lines : Arm(l) = arm }
SkippedLines == LinesOf("skip")
StartcharLines == LinesOf("startchar")
FontLines == LinesOf("font")
PlusLines == LinesOf("+")
PlusWPLines == LinesOf("+w+p")
PlusOpenLines == LinesOf("+(")
PlusContLines == LinesOf("+|+)")
SkipcodesLines == LinesOf("skipcodes")
OtherLines == LinesOf("other")

CommentLine == cl_status = "running" /\ \E l \in SkippedLines : TakeLine(l)
StartcharLine == cl_status = "running" /\ \E l \in StartcharLines : TakeLine(l)
FontLine == cl_status = "running" /\ \E l \in FontLines : TakeLine(l)
PlusLine == cl_status = "running" /\ \E l \in PlusLines : TakeLine(l)
PlusWPLine == cl_status = "running" /\ \E l \in PlusWPLines : TakeLine(l)
PlusOpenLine == cl_status = "running" /\ \E l \in PlusOpenLines : TakeLine(l)
PlusContLine == cl_status = "running" /\ \E l \in PlusContLines : TakeLine(l)
SkipcodesLine == cl_status = "running" /\ \E l \in SkipcodesLines : TakeLine(l)
OtherLine == cl_status = "running" /\ \E l \in OtherLines : TakeLine(l)

\* input.lines() is exhausted: parse_charlist returns out
EndOfCharlist ==
    /\ cl_status = "running"
    /\ cl_status' = "done"
    /\ UNCHANGED <<overflow_checks, rvars, raw, gvars, out, codepoint, line, lineno, dvars>>

CharlistNext ==
    \/ CommentLine \/ StartcharLine \/ FontLine \/ PlusLine \/ PlusWPLine
    \/ PlusOpenLine \/ PlusContLine \/ SkipcodesLine \/ OtherLine \/ EndOfCharlist

SpecCharlist == CharlistInit /\ [][CharlistNext]_vars

(***************************************************************************)
(* parse_lib_file: the symbol library.  A line is the sequence of its      *)
(* whitespace-separated tokens.                                            *)
(***************************************************************************)
TokDEF == <<"D", "E", "F">>
TokENDDEF == <<"E", "N", "D", "D", "E", "F">>
TokP == <<"P">>
TokX == <<"X">>
TokTilde == <<"~">>
TokS == <<"S">>

SCALE == 50

\* str.parse::<i32>(): decimal digits after an optional sign (the tokens
\* drawn have at most five digits, far inside the range of i32)
ParseI32(tok) ==
    LET signed == tok # <<>> /\ Head(tok) \in {"+", "-"}
        digits == IF signed THEN Tail(tok) ELSE tok
    IN IF digits # <<>> /\ \A i \in 1 .. Len(digits) : digits[i] \in DOMAIN DigitVal
       THEN [ok |-> TRUE,
             value |-> IF signed /\ Head(tok) = "-" THEN -DecimalValue(digits)
                       ELSE DecimalValue(digits)]
       ELSE [ok |-> FALSE]

\* i32 division, which truncates towards zero
TruncDiv(a, b) == IF a >= 0 THEN a \div b ELSE -((-a) \div b)
Clamp8(n) == IF n < -128 THEN -128 ELSE IF n > 127 THEN 127 ELSE n
conv_x(x) == Clamp8(TruncDiv(x, SCALE))
conv_y(y) == Clamp8(TruncDiv(-y, SCALE))

\* the loop `for i in 0..n` of the "P" arm; parts.get(k) is parts[k + 1]
RECURSIVE ParseStroke(_, _, _, _)
ParseStroke(parts, n, i, stroke) ==
    IF i >= n THEN [err |-> "", stroke |-> stroke]
    ELSE LET xi == 5 + i * 2
             yi == 6 + i * 2
         IN IF Len(parts) < xi + 1 THEN [err |-> "Missing X coord"]
            ELSE IF ~ParseI32(parts[xi + 1]).ok THEN [err |-> "Invalid X coord"]
            ELSE IF Len(parts) < yi + 1 THEN [err |-> "Missing Y coord"]
            ELSE IF ~ParseI32(parts[yi + 1]).ok THEN [err |-> "Invalid Y coord"]
            ELSE ParseStroke(parts, n, i + 1,
                             Append(stroke, <<conv_x(ParseI32(parts[xi + 1]).value),
                                              conv_y(ParseI32(parts[yi + 1]).value)>>))

\* st = [glyphs, current, status]; Err(..) ends the parse with that status
Err(st, why) == [st EXCEPT !.status = why]

\* the "DEF" arm
ArmDef(st, parts) ==
    IF st.current # <<>> THEN Err(st, "Nested DEF")
    ELSE IF Len(parts) < 2 THEN Err(st, "Malformed DEF")
    ELSE [st EXCEPT !.current = <<Sym(parts[2], <<>>, 0, 0, <<>>)>>]

\* the "P" arm
ArmP(st, parts) ==
    IF st.current = <<>> THEN Err(st, "P outside DEF")
    ELSE IF Len(parts) < 2 THEN Err(st, "Malformed P")
    ELSE IF ~ParseUsize(parts[2]).ok THEN Err(st, "Invalid P count")
    ELSE LET r == ParseStroke(parts, ParseUsize(parts[2]).value, 0, <<>>)
         IN IF r.err # "" THEN Err(st, r.err)
            ELSE [st EXCEPT !.current[1].strokes = Append(@, r.stroke)]

\* glyph.anchors.insert(pin, (ax, ay)) and the side bearing the pin stands for
WithPin(sym, pin, ax, ay) ==
    LET anchored == [sym EXCEPT !.anchors =
                        [k \in DOMAIN sym.anchors \cup {pin} |->
                            IF k = pin THEN <<ax, ay>> ELSE sym.anchors[k]]]
    IN CASE pin = TokTilde -> IF ax > 0 THEN [anchored EXCEPT !.right = ax]
                              ELSE [anchored EXCEPT !.left = ax]
         [] pin = TokP -> [anchored EXCEPT !.left = ax]
         [] pin = TokS -> [anchored EXCEPT !.right = ax]
         [] OTHER -> anchored

\* the "X" arm
ArmX(st, parts) ==
    IF st.current = <<>> THEN Err(st, "X outside DEF")
    ELSE IF Len(parts) < 2 THEN Err(st, "Malformed X")
    ELSE IF Len(parts) < 4 THEN Err(st, "Missing X in X line")
    ELSE IF ~ParseI32(parts[4]).ok THEN Err(st, "Invalid X coord")
    ELSE IF Len(parts) < 5 THEN Err(st, "Missing Y in X line")
    ELSE IF ~ParseI32(parts[5]).ok THEN Err(st, "Invalid Y coord")
    ELSE [st EXCEPT !.current[1] = WithPin(@, parts[2], conv_x(ParseI32(parts[4]).value),
                                           conv_y(ParseI32(parts[5]).value))]

\* the "ENDDEF" arm without the test for an open symbol
ArmEnddef_NoOpenTest(st) ==
    IF st.current = <<>> THEN st
    ELSE [st EXCEPT !.glyphs = [k \in DOMAIN st.glyphs \cup {st.current[1].name} |->
                                   IF k = st.current[1].name THEN st.current[1]
                                   ELSE st.glyphs[k]],
                    !.current = <<>>]

\* the "ENDDEF" arm: current.take() and glyphs.insert(name, glyph)
ArmEnddef(st) ==
    IF st.current = <<>> THEN Err(st, "ENDDEF without DEF")
    ELSE [st EXCEPT !.glyphs = [k \in DOMAIN st.glyphs \cup {st.current[1].name} |->
                                   IF k = st.current[1].name THEN st.current[1]
                                   ELSE st.glyphs[k]],
                    !.current = <<>>]

\* the body of the loop over input.lines()
ParseLibLine(st, parts) ==
    IF parts = <<>> THEN st
    ELSE CASE parts[1] = TokDEF -> ArmDef(st, parts)
           [] parts[1] = TokP -> ArmP(st, parts)
           [] parts[1] = TokX -> ArmX(st, parts)
           [] parts[1] = TokENDDEF -> ArmEnddef(st)
           [] OTHER -> st

\* numbers and lines written in libraries
LibNum0 == <<"0">>
LibNum1 == <<"1">>
LibNum2 == <<"2">>
StrokeLine == <<TokP, LibNum2, LibNum0, LibNum1, LibNum0,
                <<"1", "0", "0">>, <<"-", "4", "5", "0">>, <<"-", "9", "9">>, <<"9", "9", "9", "9">>,
                <<"N">>>>
PinLine(pin, x, y) == <<TokX, pin, LibNum1, x, y, LibNum0, <<"R">>>>
LibLines ==
    { <<>>, <<<<"F", "0">>, <<"x">>>>, <<TokDEF>>, <<TokDEF, NameA>>, <<TokDEF, NameB>>,
      <<TokENDDEF>>, StrokeLine,
      PinLine(TokTilde, <<"3", "0", "0">>, LibNum0),
      PinLine(PinX, <<"2", "0", "0">>, <<"4", "0", "0">>),
      <<TokX, TokS, LibNum1, <<"x">>>> }

LibInit ==
    /\ overflow_checks \in BOOLEAN
    /\ raw = <<>> /\ RenderIdle /\ GlyphIdle /\ CharlistIdle
    /\ ChrIdle /\ HersheyIdle /\ MappingIdle /\ CoordIdle
    /\ lib_taken = <<>>
    /\ glyphs = <<>>
    /\ current = <<>>
    /\ lib_status = "running"

LibTakeLine(l) ==
    LET st == ParseLibLine([glyphs |-> glyphs, current |-> current, status |-> lib_status], l)
    IN /\ lib_status = "running"
       /\ Len(lib_taken) < MaxLibLines
       /\ lib_taken' = Append(lib_taken, l)
       /\ glyphs' = st.glyphs
       /\ current' = st.current
       /\ lib_status' = st.status
       /\ UNCHANGED <<overflow_checks, rvars, raw, gvars, cvars, bvars, hvars, mvars, pvars>>

LibCommand(l) == IF l = <<>> THEN <<>> ELSE l[1]
LibDefLines == { l \in LibLines : LibCommand(l) = TokDEF }
LibPLines == { l \in LibLines : LibCommand(l) = TokP }
LibXLines == { l \in LibLines : LibCommand(l) = TokX }
LibEnddefLines == { l \in LibLines : LibCommand(l) = TokENDDEF }
LibIgnoredLines == { l \in LibLines : LibCommand(l) \notin {TokDEF, TokP, TokX, TokENDDEF} }

DefLine == lib_status = "running" /\ \E l \in LibDefLines : LibTakeLine(l)
PLine == lib_status = "running" /\ \E l \in LibPLines : LibTakeLine(l)
XLine == lib_status = "running" /\ \E l \in LibXLines : LibTakeLine(l)
EnddefLine == lib_status = "running" /\ \E l \in LibEnddefLines : LibTakeLine(l)
IgnoredLine == lib_status = "running" /\ \E l \in LibIgnoredLines : LibTakeLine(l)

\* input.lines() is exhausted: Err on an open symbol, Ok(glyphs) otherwise
EndOfLib ==
    /\ lib_status = "running"
    /\ lib_status' = IF current # <<>> THEN "Unterminated DEF block" ELSE "ok"
    /\ UNCHANGED <<lib_taken, glyphs, current>>
    /\ UNCHANGED <<overflow_checks, rvars, raw, gvars, cvars, bvars, hvars, mvars, pvars>>

LibNext == DefLine \/ PLine \/ XLine \/ EnddefLine \/ IgnoredLine \/ EndOfLib

SpecLib == LibInit /\ [][LibNext]_vars

(***************************************************************************)
(* parse_chrfile: the Borland .CHR container.  The buffer is a sequence of *)
(* bytes; buf[pos] of the code is input[pos + 1] here.                     *)
(***************************************************************************)
\* parse_7bit_signed without the sign extension
parse_7bit_signed_NoSignExtend(byte) ==
    LET in7 == byte % 128
    IN in7

\* parse_7bit_signed: (input | 0x80) as i8 when bit 6 is set, input as i8 otherwise
parse_7bit_signed(byte) ==
    LET in7 == byte % 128
    IN IF (in7 \div 64) % 2 # 0 THEN (in7 + 128) - 256 ELSE in7

\* a cursor is [pos, end, ok]: end is the `end` the last call computed, ok is
\* FALSE once a call has panicked
Cursor(p) == [pos |-> p, end |-> p, ok |-> TRUE]

\* Cursor::read without the test against buf.len()
read_NoBoundTest(buf, c, n) ==
    IF ~c.ok THEN [c |-> c, bytes |-> <<>>]
    ELSE [c |-> [pos |-> c.pos + n, end |-> c.pos + n, ok |-> TRUE],
          bytes |-> [k \in 1 .. n |-> IF c.pos + k <= Len(buf) THEN buf[c.pos + k] ELSE 0]]

\* Cursor::read: the n bytes at pos, or a panic when they end past the buffer
read(buf, c, n) ==
    IF ~c.ok THEN [c |-> c, bytes |-> <<>>]
    ELSE IF c.pos + n > Len(buf)
    THEN [c |-> [c EXCEPT !.end = c.pos + n, !.ok = FALSE], bytes |-> <<>>]
    ELSE [c |-> [pos |-> c.pos + n, end |-> c.pos + n, ok |-> TRUE],
          bytes |-> SubSeq(buf, c.pos + 1, c.pos + n)]

\* u16::from_le_bytes
U16(bytes) == bytes[1] + 256 * bytes[2]

\* Cursor::skip
skip(buf, c, n) == read(buf, c, n).c

\* Cursor::skip_to
skip_to(buf, c, n) ==
    IF ~c.ok THEN c
    ELSE IF n > Len(buf) THEN [c EXCEPT !.end = n, !.ok = FALSE]
    ELSE [pos |-> n, end |-> n, ok |-> TRUE]

\* read_coord without the negation of y
read_coord_NoNegate(buf, c) ==
    LET r == read(buf, c, 2)
    IN IF ~r.c.ok THEN [c |-> r.c]
       ELSE LET op1 == (r.bytes[1] \div 128) % 2
                op2 == (r.bytes[2] \div 128) % 2
                x_twos == r.bytes[1] % 128
                y_twos == r.bytes[2] % 128
            IN [c |-> r.c,
                opcode |-> op1 * 2 + op2,
                x |-> parse_7bit_signed(x_twos),
                y |-> parse_7bit_signed(y_twos),
                ovf |-> FALSE]

\* Cursor::read_coord: the cursor after it and the PackedCoord (ovf: the
\* negation of y does not fit i8)
read_coord(buf, c) ==
    LET r == read(buf, c, 2)
    IN IF ~r.c.ok THEN [c |-> r.c]
       ELSE LET op1 == (r.bytes[1] \div 128) % 2
                op2 == (r.bytes[2] \div 128) % 2
                x_twos == r.bytes[1] % 128
                y_twos == r.bytes[2] % 128
            IN [c |-> r.c,
                opcode |-> op1 * 2 + op2,
                x |-> parse_7bit_signed(x_twos),
                y |-> W8(-parse_7bit_signed(y_twos)),
                ovf |-> parse_7bit_signed(y_twos) = -128]

Magic == <<80, 75, 8, 8, 66, 71, 73, 32>>
HeaderEnd == 1
Signature == 43
DetailsEnd == 144
DescEnd == 26

\* String::from_utf8(..).unwrap(): the bytes drawn are ASCII or 0xFF, which no
\* UTF-8 sequence contains
Utf8Valid(bytes) == \A k \in 1 .. Len(bytes) : bytes[k] < 128

Locals ==
    [pc |-> "magic", end |-> 0, desc |-> <<>>, header_len |-> 0, num_characters |-> 0,
     start_char |-> 0, chr_offsets |-> <<>>, chr_widths |-> <<>>, data_section_start |-> 0,
     i |-> 0, path |-> <<>>]

\* the step of parse_chrfile that ends with cursor c: it panicked in a cursor
\* call, or failed for the reason `why`, or went on with the locals `next`
ChrStep(c, why, next) ==
    /\ cur_pos' = c.pos
    /\ IF ~c.ok THEN /\ chr_status' = "panic_eof"
                     /\ chr' = [chr EXCEPT !.end = c.end]
       ELSE IF why # "" THEN /\ chr_status' = why
                             /\ chr' = [chr EXCEPT !.end = c.end]
       ELSE /\ chr_status' = "running"
            /\ chr' = [next EXCEPT !.end = c.end]
    /\ UNCHANGED <<input, overflow_checks, rvars, raw, gvars, cvars, lvars, hvars, mvars, pvars>>

\* cur.read(&mut magic); assert_eq!(magic, ..)
ReadMagic ==
    /\ chr_status = "running" /\ chr.pc = "magic"
    /\ LET r == read(input, Cursor(cur_pos), 8)
       IN ChrStep(r.c, IF r.c.ok /\ r.bytes # Magic THEN "panic_magic" ELSE "",
                  [chr EXCEPT !.pc = "desc"])
    /\ UNCHANGED file

\* one iteration of the loop that reads the description up to the byte 26
ReadDescByte ==
    /\ chr_status = "running" /\ chr.pc = "desc"
    /\ LET r == read(input, Cursor(cur_pos), 1)
       IN IF r.c.ok /\ r.bytes[1] = DescEnd
          THEN ChrStep(r.c, IF Utf8Valid(chr.desc) THEN "" ELSE "panic_utf8",
                       [chr EXCEPT !.pc = "header"])
          ELSE ChrStep(r.c, "", [chr EXCEPT !.desc = IF r.c.ok THEN Append(@, r.bytes[1]) ELSE @])
    /\ UNCHANGED file

\* header_len, the short name, file size, driver version and the header end mark
ReadHeader ==
    /\ chr_status = "running" /\ chr.pc = "header"
    /\ LET len == read(input, Cursor(cur_pos), 2)
           name == read(input, len.c, 4)
           file_size == read(input, name.c, 2)
           major == read(input, file_size.c, 1)
           minor == read(input, major.c, 1)
           header_end == read(input, minor.c, 2)
       IN IF name.c.ok /\ ~Utf8Valid(name.bytes)
          THEN ChrStep(name.c, "panic_utf8", chr)
          ELSE ChrStep(header_end.c,
                       IF header_end.c.ok /\ U16(header_end.bytes) # HeaderEnd
                       THEN "panic_header_end" ELSE "",
                       [chr EXCEPT !.pc = "seek",
                                   !.header_len = IF len.c.ok THEN U16(len.bytes) ELSE 0])
    /\ UNCHANGED file

\* cur.skip_to(header_len as usize)
SeekHeaderEnd ==
    /\ chr_status = "running" /\ chr.pc = "seek"
    /\ ChrStep(skip_to(input, Cursor(cur_pos), chr.header_len), "", [chr EXCEPT !.pc = "details"])
    /\ UNCHANGED file

\* ReadFontDetails without assert_eq!(cur.pos, 0x0090)
ReadFontDetails_NoPosTest ==
    /\ chr_status = "running" /\ chr.pc = "details"
    /\ LET signature == read(input, Cursor(cur_pos), 1)
           sig_ok == signature.c.ok /\ signature.bytes[1] = Signature
           num == read(input, signature.c, 2)
           reserved == skip(input, num.c, 1)
           start == read(input, reserved, 1)
           stroke_offset == read(input, start.c, 2)
           scan_flag == read(input, stroke_offset.c, 1)
           top == read(input, scan_flag.c, 1)
           baseline == read(input, top.c, 1)
           descender == read(input, baseline.c, 1)
           name2 == skip(input, descender.c, 4)
           extra == skip(input, name2, 1)
       IN IF signature.c.ok /\ ~sig_ok
          THEN ChrStep(signature.c, "panic_signature", chr)
          ELSE ChrStep(extra, "",
                       [chr EXCEPT !.pc = "tables",
                                   !.num_characters = IF num.c.ok THEN U16(num.bytes) ELSE 0,
                                   !.start_char = IF start.c.ok THEN start.bytes[1] ELSE 0])
    /\ UNCHANGED file

\* the signature, the character count, the first character and the unused
\* fields, up to assert_eq!(cur.pos, 0x0090)
ReadFontDetails ==
    /\ chr_status = "running" /\ chr.pc = "details"
    /\ LET signature == read(input, Cursor(cur_pos), 1)
           sig_ok == signature.c.ok /\ signature.bytes[1] = Signature
           num == read(input, signature.c, 2)
           reserved == skip(input, num.c, 1)
           start == read(input, reserved, 1)
           stroke_offset == read(input, start.c, 2)
           scan_flag == read(input, stroke_offset.c, 1)
           top == read(input, scan_flag.c, 1)
           baseline == read(input, top.c, 1)
           descender == read(input, baseline.c, 1)
           name2 == skip(input, descender.c, 4)
           extra == skip(input, name2, 1)
       IN IF signature.c.ok /\ ~sig_ok
          THEN ChrStep(signature.c, "panic_signature", chr)
          ELSE ChrStep(extra, IF extra.ok /\ extra.pos # DetailsEnd THEN "panic_pos" ELSE "",
                       [chr EXCEPT !.pc = "tables",
                                   !.num_characters = IF num.c.ok THEN U16(num.bytes) ELSE 0,
                                   !.start_char = IF start.c.ok THEN start.bytes[1] ELSE 0])
    /\ UNCHANGED file

\* one iteration of the loop that fills chr_offsets
ReadOffset ==
    /\ chr_status = "running" /\ chr.pc = "tables"
    /\ Len(chr.chr_offsets) < chr.num_characters
    /\ LET r == read(input, Cursor(cur_pos), 2)
       IN ChrStep(r.c, "", [chr EXCEPT !.chr_offsets = IF r.c.ok THEN Append(@, U16(r.bytes)) ELSE @])
    /\ UNCHANGED file

\* one iteration of the loop that fills chr_widths
ReadWidth ==
    /\ chr_status = "running" /\ chr.pc = "tables"
    /\ Len(chr.chr_offsets) = chr.num_characters
    /\ Len(chr.chr_widths) < chr.num_characters
    /\ LET r == read(input, Cursor(cur_pos), 1)
       IN ChrStep(r.c, "", [chr EXCEPT !.chr_widths = IF r.c.ok THEN Append(@, r.bytes[1]) ELSE @])
    /\ UNCHANGED file

\* let data_section_start = cur.pos; let mut file = from_fn(|_| None)
BeginChars ==
    /\ chr_status = "running" /\ chr.pc = "tables"
    /\ Len(chr.chr_offsets) = chr.num_characters
    /\ Len(chr.chr_widths) = chr.num_characters
    /\ ChrStep(Cursor(cur_pos), "", [chr EXCEPT !.pc = "chars", !.data_section_start = cur_pos,
                                                !.i = 0])
    /\ file' = <<>>

\* the head of the loop over the characters: cur.skip_to(offset), path = []
SeekChar ==
    /\ chr_status = "running" /\ chr.pc = "chars"
    /\ chr.i < chr.num_characters
    /\ ChrStep(skip_to(input, Cursor(cur_pos),
                       chr.chr_offsets[chr.i + 1] + chr.data_section_start),
               "", [chr EXCEPT !.pc = "path", !.path = <<>>])
    /\ UNCHANGED file

\* file[ascii_value] = Some(Glyph { left: 0, right: width as i8, strokes: path })
StoreChar(table, locals) ==
    LET ascii_value == locals.i + locals.start_char
    IN Store(table, ascii_value, Gl(0, W8(locals.chr_widths[locals.i + 1]), locals.path))

\* one iteration of the loop over the coordinates of a character; the end of
\* the character stores its glyph
ReadCoord ==
    /\ chr_status = "running" /\ chr.pc = "path"
    /\ LET coord == read_coord(input, Cursor(cur_pos))
       IN IF ~coord.c.ok THEN ChrStep(coord.c, "", chr) /\ UNCHANGED file
          ELSE IF coord.ovf /\ overflow_checks
          THEN ChrStep(coord.c, "panic_overflow", chr) /\ UNCHANGED file
          ELSE IF coord.opcode = 0
          THEN IF chr.i + chr.start_char >= BORLAND_NUM_GLYPHS
               THEN ChrStep(coord.c, "panic_index", chr) /\ UNCHANGED file
               ELSE /\ ChrStep(coord.c, "", [chr EXCEPT !.pc = "chars", !.i = @ + 1])
                    /\ file' = StoreChar(file, chr)
          ELSE IF coord.opcode = 1
          THEN ChrStep(coord.c, "panic_scan", chr) /\ UNCHANGED file
          ELSE /\ ChrStep(coord.c, "",
                          [chr EXCEPT !.path = Append(@, Pt(coord.x, coord.y, coord.opcode = 3))])
               /\ UNCHANGED file

\* the loop over the characters is over: parse_chrfile returns file
ChrReturn ==
    /\ chr_status = "running" /\ chr.pc = "chars"
    /\ chr.i = chr.num_characters
    /\ chr_status' = "done"
    /\ UNCHANGED <<input, cur_pos, chr, file>>
    /\ UNCHANGED <<overflow_checks, rvars, raw, gvars, cvars, lvars, hvars, mvars, pvars>>

ChrNext ==
    \/ ReadMagic \/ ReadDescByte \/ ReadHeader \/ SeekHeaderEnd \/ ReadFontDetails
    \/ ReadOffset \/ ReadWidth \/ BeginChars \/ SeekChar \/ ReadCoord \/ ChrReturn

(***************************************************************************)
(* The .CHR buffers parse_chrfile is run on                                *)
(***************************************************************************)
LE16(n) == <<n % 256, n \div 256>>
Zeros(n) == [k \in 1 .. n |-> 0]
PadTo(bytes, n) == IF Len(bytes) >= n THEN bytes ELSE bytes \o Zeros(n - Len(bytes))
\* the two bytes of a packed coordinate
Coord(opcode, x, y) ==
    <<(opcode \div 2) * 128 + ((x + 128) % 128), (opcode % 2) * 128 + (((-y) + 128) % 128)>>
OpEnd == 0
OpScan == 1
OpMove == 2
OpDraw == 3
EndOfChar == Coord(OpEnd, 0, 0)
PathMoveDrawDraw == Coord(OpMove, 1, 2) \o Coord(OpDraw, 3, -4) \o Coord(OpDraw, -5, 63) \o EndOfChar
PathDrawFirst == Coord(OpDraw, -64, -63) \o Coord(OpMove, 7, 0) \o EndOfChar
PathScan == Coord(OpMove, 1, 1) \o Coord(OpScan, 2, 2) \o EndOfChar
PathNoEnd == Coord(OpMove, 1, 1) \o Coord(OpDraw, 2, 2)
PathEmpty == EndOfChar
Paths == {PathMoveDrawDraw, PathDrawFirst, PathScan, PathNoEnd, PathEmpty}

RECURSIVE Concat(_)
Concat(seqs) == IF seqs = <<>> THEN <<>> ELSE Head(seqs) \o Concat(Tail(seqs))
RECURSIVE OffsetsOf(_, _)
OffsetsOf(paths, at) ==
    IF paths = <<>> THEN <<>> ELSE <<at>> \o OffsetsOf(Tail(paths), at + Len(Head(paths)))
RECURSIVE Words(_)
Words(ns) == IF ns = <<>> THEN <<>> ELSE LE16(Head(ns)) \o Words(Tail(ns))

\* a container: description, recorded header length, declared character
\* count, first character, offsets, widths and stroke data
ChrFile(desc, header_len, num_characters, start_char, offsets, widths, data) ==
    PadTo(Magic \o desc \o <<DescEnd>> \o LE16(header_len) \o <<84, 83, 67, 82>>
            \o LE16(0) \o <<1, 0>> \o LE16(HeaderEnd), header_len)
      \o <<Signature>> \o LE16(num_characters) \o <<0, start_char>> \o LE16(0)
      \o <<0, 7, 0, 2>> \o Zeros(5)
      \o Words(offsets) \o widths \o data

Desc == <<66, 71, 73>>
\* a description that runs over offset 0x80 and holds a `+` and 15 more bytes
\* there
LongDesc == Zeros(120) \o <<Signature>> \o Zeros(20)
\* the container holding the given paths, one character each
ChrOf(paths, start_char, first_width) ==
    ChrFile(Desc, 128, Len(paths), start_char, OffsetsOf(paths, 0),
            [k \in 1 .. Len(paths) |-> first_width + k - 1], Concat(paths))

PathSeqs == UNION { [1 .. n -> Paths] : n \in 0 .. MaxChars }
WellFormed == ChrOf(<<PathMoveDrawDraw, PathDrawFirst>>, 65, 200)
Prefixes(bytes) == { SubSeq(bytes, 1, n) : n \in 0 .. Len(bytes) }
ChrInputs ==
    { ChrOf(ps, start_char, 10) : ps \in PathSeqs, start_char \in {65, 255} }
    \cup Prefixes(WellFormed)
    \cup { ChrFile(Desc, 128, 1, 65, <<7>>, <<10>>, PathMoveDrawDraw),
           ChrFile(Desc, 128, 2, 65, <<0, 0>>, <<10, 11>>, PathMoveDrawDraw),
           ChrFile(Desc, 128, 1, 65, <<2>>, <<10>>, PathMoveDrawDraw),
           ChrFile(<<66, 255>>, 128, 0, 65, <<>>, <<>>, <<>>),
           ChrFile(<<>>, 128, 0, 65, <<>>, <<>>, <<>>),
           ChrFile(Desc, 127, 0, 65, <<>>, <<>>, <<>>),
           ChrFile(Desc, 129, 0, 65, <<>>, <<>>, <<>>),
           SubSeq(ChrFile(Desc, 300, 0, 65, <<>>, <<>>, <<>>), 1, 200),
           <<80, 75, 8, 8, 66, 71, 73, 33>> \o Zeros(200),
           ChrFile(Desc, 0, 0, 65, <<>>, <<>>, <<>>),
           ChrFile(LongDesc, 128, 0, 65, <<>>, <<>>, <<>>),
           ChrFile(LongDesc, 130, 0, 65, <<>>, <<>>, <<>>),
           ChrFile(Zeros(125), 128, 0, 65, <<>>, <<>>, <<>>) }

ChrInit ==
    /\ overflow_checks \in BOOLEAN
    /\ raw = <<>> /\ RenderIdle /\ GlyphIdle /\ CharlistIdle
    /\ LibIdle /\ HersheyIdle /\ MappingIdle /\ CoordIdle
    /\ input \in ChrInputs
    /\ cur_pos = 0
    /\ chr = Locals
    /\ file = <<>>
    /\ chr_status = "running"

SpecChr == ChrInit /\ [][ChrNext]_vars

(***************************************************************************)
(* parse_7bit_signed and Cursor::read_coord called on their own: on every  *)
(* byte, and on every buffer of at most two bytes under a new cursor       *)
(***************************************************************************)
Bytes == 0 .. 255
CoordBuffers == UNION { [1 .. n -> Bytes] : n \in 0 .. 2 }

CoordInit ==
    /\ overflow_checks \in BOOLEAN
    /\ raw = <<>> /\ RenderIdle /\ GlyphIdle /\ CharlistIdle
    /\ LibIdle /\ ChrIdle /\ HersheyIdle /\ MappingIdle
    /\ coord_buf \in CoordBuffers
    /\ coord_call = [fn |-> "none"]
    /\ coord_status = "running"

CoordUnchanged == UNCHANGED <<overflow_checks, rvars, raw, gvars, cvars, lvars, bvars, hvars, mvars>>

\* parse_7bit_signed(input) on the first byte of the buffer
CallParse7BitSigned ==
    /\ coord_status = "running" /\ coord_call.fn = "none"
    /\ Len(coord_buf) = 1
    /\ coord_call' = [fn |-> "parse_7bit_signed", input |-> coord_buf[1],
                 value |-> parse_7bit_signed(coord_buf[1])]
    /\ coord_status' = "done"
    /\ UNCHANGED coord_buf
    /\ CoordUnchanged

\* Cursor::new(buf).read_coord()
CallReadCoord ==
    /\ coord_status = "running" /\ coord_call.fn = "none"
    /\ LET r == read_coord(coord_buf, Cursor(0))
       IN IF ~r.c.ok
          THEN /\ coord_call' = [fn |-> "read_coord", pos |-> r.c.pos]
               /\ coord_status' = "panic_eof"
          ELSE IF r.ovf /\ overflow_checks
          THEN /\ coord_call' = [fn |-> "read_coord", pos |-> r.c.pos]
               /\ coord_status' = "panic_overflow"
          ELSE /\ coord_call' = [fn |-> "read_coord", pos |-> r.c.pos,
                            opcode |-> r.opcode, x |-> r.x, y |-> r.y]
               /\ coord_status' = "done"
    /\ UNCHANGED coord_buf
    /\ CoordUnchanged

CoordNext == CallParse7BitSigned \/ CallReadCoord

SpecCoord == CoordInit /\ [][CoordNext]_vars

(***************************************************************************)
(* Glyph::from_line and load_file of the Hershey build script.  A line is  *)
(* the sequence of the codepoints of its characters.                       *)
(***************************************************************************)
CharSpace == 32
CharPlus == 43
CharZero == 48
CharR == 82
IdWidth == 5
CountWidth == 2
ContinuedLen == 72
U16Max == 65535

Take(s, n) == SubSeq(s, 1, Min(n, Len(s)))
Drop(s, n) == SubSeq(s, Min(n, Len(s)) + 1, Len(s))

\* str::trim on the characters drawn: spaces off both ends
RECURSIVE TrimStart(_)
TrimStart(s) == IF s # <<>> /\ Head(s) = CharSpace THEN TrimStart(Tail(s)) ELSE s
RECURSIVE TrimEnd(_)
TrimEnd(s) ==
    IF s # <<>> /\ s[Len(s)] = CharSpace THEN TrimEnd(SubSeq(s, 1, Len(s) - 1)) ELSE s
Trim(s) == TrimEnd(TrimStart(s))

IsDigit(c) == c \in CharZero .. (CharZero + 9)
RECURSIVE DecimalOfCodes(_)
DecimalOfCodes(s) ==
    IF s = <<>> THEN 0
    ELSE 10 * DecimalOfCodes(SubSeq(s, 1, Len(s) - 1)) + (s[Len(s)] - CharZero)

\* str::parse::<u16>() on at most five characters
ParseU16(s) ==
    LET digits == IF s # <<>> /\ Head(s) = CharPlus THEN Tail(s) ELSE s
    IN IF digits # <<>> /\ (\A k \in 1 .. Len(digits) : IsDigit(digits[k]))
          /\ DecimalOfCodes(digits) <= U16Max
       THEN [ok |-> TRUE, value |-> DecimalOfCodes(digits)]
       ELSE [ok |-> FALSE]

\* the body of the while-let loop without the pen-lift marker
PairStep_NoLift(st, xch, ych) ==
    [pen |-> TRUE, strokes |-> Append(st.strokes, Pt(W8(xch - CharR), W8(ych - CharR), st.pen))]

\* the body of the while-let loop of from_line, on st = [pen, strokes]
PairStep(st, xch, ych) ==
    IF xch = CharSpace /\ ych = CharR THEN [st EXCEPT !.pen = FALSE]
    ELSE [pen |-> TRUE,
          strokes |-> Append(st.strokes, Pt(W8(xch - CharR), W8(ych - CharR), st.pen))]

\* the iterations lo .. hi of the loop, iteration j taking the pair of
\* characters rest[2j - 1], rest[2j]; the state after the first half of them
\* is computed before the second half is entered
RECURSIVE Pairs(_, _, _, _)
Pairs(rest, lo, hi, st) ==
    IF lo > hi THEN st
    ELSE IF lo = hi THEN PairStep(st, rest[2 * lo - 1], rest[2 * lo])
    ELSE LET half == Pairs(rest, lo, (lo + hi) \div 2, st)
         IN IF half.pen THEN Pairs(rest, (lo + hi) \div 2 + 1, hi, half)
            ELSE Pairs(rest, (lo + hi) \div 2 + 1, hi, [half EXCEPT !.pen = FALSE])

\* the loop over coords[2..]: an odd last character ends it
StrokesOf(rest) == Pairs(rest, 1, Len(rest) \div 2, [pen |-> FALSE, strokes |-> <<>>]).strokes

\* Glyph::from_line: Err(()), a panic on coords[0], coords[1] or coords[2..],
\* or Ok((id, glyph))
from_line(l) ==
    LET id == ParseU16(Trim(Take(l, IdWidth)))
        coords == Drop(l, IdWidth + 1 + CountWidth)
    IN IF ~id.ok THEN [tag |-> "err"]
       ELSE IF Len(coords) < 2 THEN [tag |-> "panic_index"]
       ELSE [tag |-> "ok", id |-> id.value,
             glyph |-> Gl(W8(coords[1] - CharR), W8(coords[2] - CharR),
                          StrokesOf(Drop(coords, 2)))]

\* the inner loop of load_file with the test last_line.len() >= 72
RECURSIVE Continue_AtLeast(_, _, _)
Continue_AtLeast(record, last_line, rest) ==
    IF Len(last_line) < ContinuedLen THEN [full |-> record, rest |-> rest]
    ELSE LET l == IF rest = <<>> THEN <<>> ELSE Head(rest)
         IN Continue_AtLeast(record \o l, l, IF rest = <<>> THEN <<>> ELSE Tail(rest))

\* the inner loop of load_file: the logical record that starts with `first`
\* and the physical lines left after it
RECURSIVE Continue(_, _, _)
Continue(record, last_line, rest) ==
    IF Len(last_line) # ContinuedLen THEN [full |-> record, rest |-> rest]
    ELSE LET l == IF rest = <<>> THEN <<>> ELSE Head(rest)
         IN Continue(record \o l, l, IF rest = <<>> THEN <<>> ELSE Tail(rest))

HersheyUnchanged == UNCHANGED <<overflow_checks, rvars, raw, gvars, cvars, lvars, bvars, mvars, pvars>>

\* Some("") => continue
EmptyLine ==
    /\ hf_status = "running" /\ hf_lines # <<>> /\ Head(hf_lines) = <<>>
    /\ hf_lines' = Tail(hf_lines)
    /\ UNCHANGED <<full, hf_result, hf_status>>
    /\ HersheyUnchanged

\* Some(line): form the logical record, decode it and store its glyph
LoadRecord ==
    /\ hf_status = "running" /\ hf_lines # <<>> /\ Head(hf_lines) # <<>>
    /\ LET rec == Continue(Head(hf_lines), Head(hf_lines), Tail(hf_lines))
           glyph == from_line(rec.full)
       IN /\ hf_lines' = rec.rest
          /\ full' = rec.full
          /\ hf_status' = IF glyph.tag = "panic_index" THEN "panic_index" ELSE "running"
          /\ hf_result' = IF glyph.tag = "ok" /\ glyph.id < HERSHEY_NUM_GLYPHS
                          THEN Store(hf_result, glyph.id, glyph.glyph)
                          ELSE hf_result
    /\ HersheyUnchanged

\* None => break result
LoadReturn ==
    /\ hf_status = "running" /\ hf_lines = <<>>
    /\ hf_status' = "done"
    /\ UNCHANGED <<hf_lines, full, hf_result>>
    /\ HersheyUnchanged

HersheyNext == EmptyLine \/ LoadRecord \/ LoadReturn

(***************************************************************************)
(* The Hershey files load_file is run on                                   *)
(***************************************************************************)
Digit(n) == CharZero + n
\* a coordinate character: the value v is written as the character 'R' + v
Rel(v) == CharR + v
PenLift == <<CharSpace, CharR>>
\* a record: five characters of id, a space, two of vertex count, the bearings
\* and the coordinate characters
Record(id, coords) == id \o <<CharSpace, CharSpace, Digit(9)>> \o coords
Id1 == <<CharSpace, CharSpace, CharSpace, CharSpace, Digit(1)>>
Id2 == <<CharSpace, Digit(2), CharSpace, CharSpace, CharSpace>>
IdBad == <<CharSpace, CharSpace, Digit(1), CharSpace, Digit(2)>>
Id4000 == <<CharSpace, Digit(4), Digit(0), Digit(0), Digit(0)>>
Id99999 == <<Digit(9), Digit(9), Digit(9), Digit(9), Digit(9)>>
Bearings5 == <<Rel(-5), Rel(5)>>
CoordsLifted ==
    <<Rel(0), Rel(-5), Rel(-4), Rel(4)>> \o PenLift \o <<Rel(0), Rel(0)>> \o PenLift \o PenLift
      \o <<Rel(4), Rel(0), Rel(5), Rel(5), Rel(1)>>
RecLifted == Record(Id1, Bearings5 \o CoordsLifted)
RecLiftFirst == Record(Id2, Bearings5 \o PenLift \o <<Rel(-50), Rel(45), CharSpace, CharSpace>>)
RecOther == Record(Id1, <<Rel(0), Rel(8), Rel(1), Rel(1)>>)
RecBadId == Record(IdBad, Bearings5)
RecBigId == Record(Id4000, Bearings5)
RecHugeId == Record(Id99999, Bearings5)
RecNoCoords == Record(Id2, <<>>)
RecOneCoord == Record(Id2, <<Rel(-5)>>)
RecShort == <<Digit(3)>>
\* a physical line of 72 characters and the line that continues it
RecLong == Record(Id2, Bearings5 \o [k \in 1 .. 62 |-> Rel((k % 7) - 3)])
RecTail == PenLift \o <<Rel(1), Rel(2), Rel(3), Rel(4)>>
\* physical lines of 71 and of 73 characters
Rec71 == SubSeq(RecLong, 1, 71)
Rec73 == Append(RecLong, Rel(1))

PhysicalLines ==
    { <<>>, RecLifted, RecLiftFirst, RecOther, RecBadId, RecBigId, RecHugeId, RecNoCoords,
      RecOneCoord, RecShort, RecLong, RecTail, Rec71, Rec73 }
HersheyFiles == UNION { [1 .. n -> PhysicalLines] : n \in 0 .. MaxFileLines }

HersheyInit ==
    /\ overflow_checks \in BOOLEAN
    /\ raw = <<>> /\ RenderIdle /\ GlyphIdle /\ CharlistIdle
    /\ LibIdle /\ ChrIdle /\ MappingIdle /\ CoordIdle
    /\ hf_lines \in HersheyFiles
    /\ full = <<>>
    /\ hf_result = <<>>
    /\ hf_status = "running"

SpecHershey == HersheyInit /\ [][HersheyNext]_vars

\* a physical line of n characters whose id field does not parse
Unparsed(n) == Record(IdBad, [k \in 1 .. (n - 8) |-> Rel((k % 7) - 3)])
\* the files made of lines of 0, 71, 72 and 73 characters and a short record
ContinuedLines == { <<>>, RecOther, Unparsed(71), Unparsed(72), Unparsed(73) }
ContinuedFiles == UNION { [1 .. n -> ContinuedLines] : n \in 0 .. MaxFileLines }

HersheyLiveInit ==
    /\ overflow_checks \in BOOLEAN
    /\ raw = <<>> /\ RenderIdle /\ GlyphIdle /\ CharlistIdle
    /\ LibIdle /\ ChrIdle /\ MappingIdle /\ CoordIdle
    /\ hf_lines \in ContinuedFiles
    /\ full = <<>>
    /\ hf_result = <<>>
    /\ hf_status = "running"

\* load_file runs to its end: a step that can be taken is taken
SpecHersheyLive == HersheyLiveInit /\ [][HersheyNext]_vars /\ WF_vars(HersheyNext)

(***************************************************************************)
(* load_mapping of the Hershey build script.  A line is the sequence of    *)
(* the codepoints of its characters.                                       *)
(***************************************************************************)
MAPPING_LEN == 256
FIRST_CODEPOINT == 32

\* line.split(" "): the parts between single spaces, empty parts included
RECURSIVE SplitSpace(_, _)
SplitSpace(s, part) ==
    IF s = <<>> THEN <<part>>
    ELSE IF Head(s) = CharSpace THEN <<part>> \o SplitSpace(Tail(s), <<>>)
    ELSE SplitSpace(Tail(s), Append(part, Head(s)))

\* str::parse::<usize>() on the numbers drawn, all far below usize::MAX
ParseUsizeCodes(s) ==
    LET digits == IF s # <<>> /\ Head(s) = CharPlus THEN Tail(s) ELSE s
    IN IF digits # <<>> /\ (\A k \in 1 .. Len(digits) : IsDigit(digits[k]))
       THEN [ok |-> TRUE, value |-> DecimalOfCodes(digits)]
       ELSE [ok |-> FALSE]

\* the body of `for idx in first..=last` without the test codepoint < 256
IdxStep_NoBoundTest(st, idx) ==
    [result |-> [c \in DOMAIN st.result \cup {st.codepoint} |->
                    IF c = st.codepoint THEN idx % (U16Max + 1) ELSE st.result[c]],
     codepoint |-> st.codepoint + 1]

\* the body of `for idx in first..=last`, on st = [result, codepoint]
IdxStep(st, idx) ==
    [result |-> IF st.codepoint < MAPPING_LEN
                THEN [st.result EXCEPT ![st.codepoint] = idx % (U16Max + 1)]
                ELSE st.result,
     codepoint |-> st.codepoint + 1]

\* the iterations for idx in lo..=hi; the state after the first half of
\* them is computed before the second half is entered
RECURSIVE IdxRange(_, _, _)
IdxRange(lo, hi, st) ==
    IF lo > hi THEN st
    ELSE IF lo = hi THEN IdxStep(st, lo)
    ELSE LET half == IdxRange(lo, (lo + hi) \div 2, st)
         IN IF half.codepoint < MAPPING_LEN THEN IdxRange((lo + hi) \div 2 + 1, hi, half)
            ELSE IdxRange((lo + hi) \div 2 + 1, hi, [half EXCEPT !.codepoint = @])

\* the if-let chain: the first two parts of the line as numbers, if they are
MapRange(l) ==
    LET parts == SplitSpace(l, <<>>)
    IN IF Len(parts) >= 2 /\ ParseUsizeCodes(parts[1]).ok /\ ParseUsizeCodes(parts[2]).ok
       THEN [ok |-> TRUE, first |-> ParseUsizeCodes(parts[1]).value,
             last |-> ParseUsizeCodes(parts[2]).value]
       ELSE [ok |-> FALSE]

\* the body of the loop over file.lines(), on st = [result, codepoint]
MapLine(st, l) ==
    IF l = <<>> THEN st
    ELSE LET r == MapRange(l)
         IN IF ~r.ok THEN st
            ELSE IdxRange(r.first, IF r.last = 0 THEN r.first ELSE r.last, st)

\* numbers and lines written in mapping files (9 is the tab character)
RECURSIVE Codes(_)
Codes(n) == IF n < 10 THEN <<Digit(n)>> ELSE Append(Codes(n \div 10), Digit(n % 10))
RangeLine(first, last) == Codes(first) \o <<CharSpace>> \o Codes(last)
\* the lines of two numbers separated by one space, with their numbers
Ranges ==
    { <<65, 67>>, <<70, 0>>, <<0, 0>>, <<5, 3>>, <<1, 300>>, <<3999, 3999>>, <<65535, 65538>> }
MalformedLines ==
    { Codes(65), Codes(65) \o <<CharSpace, CharSpace>> \o Codes(67),
      Codes(65) \o <<9>> \o Codes(67), <<CharSpace>> \o RangeLine(65, 67),
      <<120, CharSpace>> \o Codes(1), Codes(7) \o <<CharSpace, 45>> \o Codes(1) }
MapLines ==
    { <<>>, RangeLine(65, 67) \o <<CharSpace>> \o Codes(99) }
    \cup { RangeLine(r[1], r[2]) : r \in Ranges } \cup MalformedLines

MappingUnchanged == UNCHANGED <<overflow_checks, rvars, raw, gvars, cvars, lvars, bvars, hvars, pvars>>

MappingInit ==
    /\ overflow_checks \in BOOLEAN
    /\ raw = <<>> /\ RenderIdle /\ GlyphIdle /\ CharlistIdle
    /\ LibIdle /\ ChrIdle /\ HersheyIdle /\ CoordIdle
    /\ map_line = <<>>
    /\ map_count = 0
    /\ mapping = [c \in 0 .. (MAPPING_LEN - 1) |-> 0]
    /\ map_codepoint = FIRST_CODEPOINT
    /\ map_status = "running"

MapTakeLine(l) ==
    LET st == MapLine([result |-> mapping, codepoint |-> map_codepoint], l)
    IN /\ map_status = "running"
       /\ map_count < MaxMapLines
       /\ map_line' = l
       /\ map_count' = map_count + 1
       /\ mapping' = st.result
       /\ map_codepoint' = st.codepoint
       /\ UNCHANGED map_status
       /\ MappingUnchanged

MapEmptyLines == { l \in MapLines : l = <<>> }
MapRangeLines == { l \in MapLines : l # <<>> /\ MapRange(l).ok }
MapSkippedLines == { l \in MapLines : l # <<>> /\ ~MapRange(l).ok }

MapEmptyLine == map_status = "running" /\ \E l \in MapEmptyLines : MapTakeLine(l)
MapRangeLine == map_status = "running" /\ \E l \in MapRangeLines : MapTakeLine(l)
MapSkippedLine == map_status = "running" /\ \E l \in MapSkippedLines : MapTakeLine(l)

\* file.lines() is exhausted: load_mapping returns result
MapReturn ==
    /\ map_status = "running"
    /\ map_status' = "done"
    /\ UNCHANGED <<map_line, map_count, mapping, map_codepoint>>
    /\ MappingUnchanged

MappingNext == MapEmptyLine \/ MapRangeLine \/ MapSkippedLine \/ MapReturn

SpecMapping == MappingInit /\ [][MappingNext]_vars

(***************************************************************************)
(* Properties of render_text                                               *)
(***************************************************************************)
\* The glyph a character has, in the words of the renderer's contract.
HasGlyph(f, c) ==
    IF f.kind = "hershey"
    THEN c <= 255 /\ MappingAt(f, c) # 0 /\ MappingAt(f, c) \in DOMAIN f.table
    ELSE c \in DOMAIN f.table
GlyphOf(f, c) == IF f.kind = "hershey" THEN f.table[MappingAt(f, c)] ELSE f.table[c]
Advance(f, c) == IF HasGlyph(f, c) THEN GlyphOf(f, c).right - GlyphOf(f, c).left ELSE 0

\* size of the table a character indexes: the 256-entry Borland table or
\* Hershey mapping, the NewStroke table
ActiveTableSize(f) == IF f.kind = "newstroke" THEN NUM_GLYPHS ELSE 256
OutOfDomain(f, c) == c >= ActiveTableSize(f)
\* the character's slot exists and holds no glyph
AbsentInDomain(f, c) == ~OutOfDomain(f, c) /\ ~HasGlyph(f, c)

\* sum of the advances of the characters t[lo..hi] that have a glyph
RECURSIVE SumAdvance(_, _, _, _)
SumAdvance(f, t, lo, hi) ==
    IF lo > hi THEN 0
    ELSE IF lo = hi THEN Advance(f, t[lo])
    ELSE LET mid == (lo + hi) \div 2
         IN SumAdvance(f, t, lo, mid) + SumAdvance(f, t, mid + 1, hi)

\* the points of the glyphs of t[lo..hi] in input order, the first of them
\* drawn at running and each later one at running plus the advances between
RECURSIVE ExpectedPoints(_, _, _, _, _)
ExpectedPoints(f, t, lo, hi, running) ==
    IF lo > hi THEN <<>>
    ELSE IF lo = hi
    THEN IF HasGlyph(f, t[lo])
         THEN LET g == GlyphOf(f, t[lo])
              IN [k \in 1 .. Len(g.strokes) |->
                     [x |-> W16(g.strokes[k].x - g.left + running),
                      y |-> g.strokes[k].y,
                      pen |-> g.strokes[k].pen]]
         ELSE <<>>
    ELSE LET mid == (lo + hi) \div 2
         IN ExpectedPoints(f, t, lo, mid, running)
            \o ExpectedPoints(f, t, mid + 1, hi, running + SumAdvance(f, t, lo, mid))

Expected(f, t) == ExpectedPoints(f, t, 1, Len(t), 0)
RunningX(f, t) == W16(SumAdvance(f, t, 1, Len(t)))

Taken == SubSeq(text, 1, pos)
RemoveAt(t, i) == SubSeq(t, 1, i - 1) \o SubSeq(t, i + 1, Len(t))
RECURSIVE DropOutOfDomain(_, _)
DropOutOfDomain(f, t) ==
    IF t = <<>> THEN <<>>
    ELSE IF OutOfDomain(f, Head(t)) THEN DropOutOfDomain(f, Tail(t))
    ELSE <<Head(t)>> \o DropOutOfDomain(f, Tail(t))

\* what a call of render_text gives its caller: the points, or the panic
Outcome(st) == IF st.status = "done" THEN <<"done", st.result>> ELSE <<st.status>>

\* C1: while render_text runs and when it returns, the result holds, in input
\* order, the stroke points of every character taken so far that has a glyph,
\* as (point.x - glyph.left + running_x, point.y, point.pen) in the i16 of
\* Point, and running_x is the sum of right - left over those glyphs: it
\* starts at 0 and no absent character resets or changes it.
C1_RenderOrderAndAdvance ==
    r_status \in {"running", "done"} =>
        /\ result = Expected(font, Taken)
        /\ x_idx = RunningX(font, Taken)

C1_Witness ==
    /\ r_status = "done"
    /\ \E i, j, k \in 1 .. Len(text) :
          /\ i < j /\ j < k
          /\ HasGlyph(font, text[i]) /\ ~HasGlyph(font, text[j]) /\ HasGlyph(font, text[k])
          /\ GlyphOf(font, text[i]).left # 0
    /\ Len(result) >= 4

\* C2: a character at or beyond the size of the active table is skipped as an
\* absent slot is: no error, no points, running_x unchanged, and the loop goes on.
C2_OutOfDomainSkipped ==
    (\E k \in 1 .. pos : OutOfDomain(font, text[k])) =>
        /\ r_status # "panic_index"
        /\ r_status \in {"running", "done"} =>
              /\ result = Expected(font, DropOutOfDomain(font, Taken))
              /\ x_idx = RunningX(font, DropOutOfDomain(font, Taken))

\* C3: once render_text(s) has ended, its outcome is the outcome of
\* render_text on s without the character at i, for every position i whose
\* character has a slot but no glyph.
C3_AbsentCharRemovable ==
    r_status # "running" =>
        \A i \in 1 .. Len(text) :
            AbsentInDomain(font, text[i]) =>
                Outcome([result |-> result, status |-> r_status])
                    = Outcome(RenderText(font, RemoveAt(text, i), overflow_checks))

C3_Witness ==
    /\ r_status = "done"
    /\ result # <<>>
    /\ \E i \in 2 .. Len(text) - 1 :
          /\ AbsentInDomain(font, text[i])
          /\ HasGlyph(font, text[i - 1]) /\ HasGlyph(font, text[i + 1])
          /\ font.kind = "hershey" => MappingAt(font, text[i]) = 0

\* the running advance and every emitted x of t[lo..hi], as integers, stay
\* within i16 when the first glyph is drawn at running
RECURSIVE ExactWithinI16(_, _, _, _, _)
ExactWithinI16(f, t, lo, hi, running) ==
    IF lo > hi THEN running \in I16
    ELSE IF lo = hi
    THEN /\ running \in I16
         /\ running + Advance(f, t[lo]) \in I16
         /\ HasGlyph(f, t[lo]) =>
               LET g == GlyphOf(f, t[lo])
               IN \A k \in 1 .. Len(g.strokes) : g.strokes[k].x - g.left + running \in I16
    ELSE LET mid == (lo + hi) \div 2
         IN /\ ExactWithinI16(f, t, lo, mid, running)
            /\ ExactWithinI16(f, t, mid + 1, hi, running + SumAdvance(f, t, lo, mid))

\* C4: whatever the length of the text, running_x and every emitted x stay
\* within the signed 16-bit range, so that render_text never fails on an
\* arithmetic overflow.
C4_NoOverflow ==
    /\ r_status # "panic_overflow"
    /\ r_status \in {"running", "done"} => ExactWithinI16(font, Taken, 1, Len(Taken), 0)

(***************************************************************************)
(* Properties of the NewStroke glyph builders                              *)
(***************************************************************************)
\* a symbol reference as a script writes it: an optional sigil, then the name
RefForms ==
    { [ref |-> n, tr |-> Identity, name |-> n] : n \in {NameA, NameB, NameN} }
    \cup { [ref |-> <<c>> \o n, tr |-> SigilTransform[c], name |-> n] :
              c \in Sigils, n \in {NameA, NameB, NameN} }

\* an anchor suffix as a script writes it: ANCHOR, or ANCHOR=ANCHOR
AnchorForms ==
    { [sfx |-> k, base_key |-> k, accent_key |-> k] : k \in {PinX, PinY} }
    \cup { [sfx |-> k1 \o <<"=">> \o k2, base_key |-> k1, accent_key |-> k2] :
              k1 \in {PinX, PinY}, k2 \in {PinX, PinY} }

\* the forms the base reference of the composition called can have
BaseOfCall ==
    IF g_call.fn = "compose_two" THEN { rf \in RefForms : rf.ref = g_call.a } ELSE {}

IsSingleCall(rf) == g_call = [fn |-> "build_single", name |-> rf.ref]
IsComposeCall(b, a, af) ==
    g_call = [fn |-> "compose_two", a |-> b.ref, b |-> a.ref \o <<" ">> \o af.sfx]

\* the raw stroke points of a symbol, stroke after stroke
RECURSIVE RawPoints(_)
RawPoints(strokes) == IF strokes = <<>> THEN <<>> ELSE Head(strokes) \o RawPoints(Tail(strokes))

\* the pen flags of a symbol: up on the first point of each stroke
RECURSIVE PenFlags(_)
PenFlags(strokes) ==
    IF strokes = <<>> THEN <<>>
    ELSE [k \in 1 .. Len(Head(strokes)) |-> k # 1] \o PenFlags(Tail(strokes))

\* the points the transform formula x*scale_x, y*scale_y + offset_y + BASE gives
FormulaPoints(sym, tr) ==
    LET pts == RawPoints(sym.strokes)
        pen == PenFlags(sym.strokes)
    IN [k \in 1 .. Len(pts) |->
           [x |-> W8(pts[k][1] * tr.scale_x),
            y |-> W8(pts[k][2] * tr.scale_y + tr.offset_y + BASE),
            pen |-> pen[k]]]

\* C6: a single-glyph build maps every raw stroke point (x, y) to
\* (x*scale_x, y*scale_y + offset_y + 9) with offset_y the vertical offset of
\* the transform of the reference; first point of a stroke pen up, others down.
C6_SingleBuildAppliesOffset ==
    \A rf \in RefForms :
        (IsSingleCall(rf) /\ g_ret.tag = "some") =>
            g_ret.glyph.strokes = FormulaPoints(raw[rf.name], rf.tr)

\* the strokes a single-glyph build gives the reference
SingleStrokes(rf) == render_glyph(raw[rf.name], rf.tr, 0, 0).strokes
Translated(pts, ox, oy) ==
    [k \in 1 .. Len(pts) |-> [x |-> W8(pts[k].x + ox), y |-> W8(pts[k].y + oy), pen |-> pts[k].pen]]
\* an anchor under a transform
AnchorUnder(p, tr) == <<p[1] * tr.scale_x, p[2] * tr.scale_y + tr.offset_y>>
PlacementX(b, a, af) ==
    W8(AnchorUnder(raw[b.name].anchors[af.base_key], b.tr)[1]
       - AnchorUnder(raw[a.name].anchors[af.accent_key], a.tr)[1])
PlacementY(b, a, af) ==
    W8(AnchorUnder(raw[b.name].anchors[af.base_key], b.tr)[2]
       - AnchorUnder(raw[a.name].anchors[af.accent_key], a.tr)[2])

\* a composition of two known symbols on anchors both of them have
AnchoredCompose(b, a, af) ==
    /\ IsComposeCall(b, a, af)
    /\ b.name \in DOMAIN raw /\ a.name \in DOMAIN raw
    /\ af.base_key \in DOMAIN raw[b.name].anchors
    /\ af.accent_key \in DOMAIN raw[a.name].anchors

\* base strokes first as a single build gives them, then the accent strokes
\* of a single build moved by the difference of the transformed anchors
BaseThenPlacedAccent(b, a, af) ==
    g_ret.glyph.strokes =
        SingleStrokes(b) \o Translated(SingleStrokes(a), PlacementX(b, a, af), PlacementY(b, a, af))

\* the accent part of the composed glyph is the raw accent points moved by
\* (bx - ax, by - ay + lift)
AccentIsRawMovedBy(b, a, af, lift) ==
    LET pts == RawPoints(raw[a.name].strokes)
        nb == Len(RawPoints(raw[b.name].strokes))
        bp == raw[b.name].anchors[af.base_key]
        ap == raw[a.name].anchors[af.accent_key]
    IN /\ Len(g_ret.glyph.strokes) = nb + Len(pts)
       /\ \A k \in 1 .. Len(pts) :
             /\ g_ret.glyph.strokes[nb + k].x = W8(pts[k][1] + bp[1] - ap[1])
             /\ g_ret.glyph.strokes[nb + k].y = W8(pts[k][2] + bp[2] - ap[2] + lift)

\* C7 as stated: base strokes first and untranslated, accent strokes
\* translated by the transformed base anchor minus the transformed accent
\* anchor; under identity transforms the composed accent points are the raw
\* accent points translated by (bx-ax, by-ay).
C7_AccentPlacedOnAnchor ==
    \A b \in BaseOfCall, a \in RefForms, af \in AnchorForms :
        (AnchoredCompose(b, a, af) /\ g_ret.tag = "some") =>
            /\ BaseThenPlacedAccent(b, a, af)
            /\ (b.tr = Identity /\ a.tr = Identity) => AccentIsRawMovedBy(b, a, af, 0)

\* C7 amended: as C7, but under identity transforms the composed accent
\* points are the raw accent points translated by (bx-ax, by-ay+BASE): the
\* baseline shift of every rendered point applies to them too (int8 arithmetic).
C7_AccentPlacedOnAnchorWithBase ==
    \A b \in BaseOfCall, a \in RefForms, af \in AnchorForms :
        (AnchoredCompose(b, a, af) /\ g_ret.tag = "some") =>
            /\ BaseThenPlacedAccent(b, a, af)
            /\ (b.tr = Identity /\ a.tr = Identity) => AccentIsRawMovedBy(b, a, af, BASE)

C7_Witness ==
    \E b \in BaseOfCall, a \in RefForms, af \in AnchorForms :
        /\ AnchoredCompose(b, a, af) /\ g_ret.tag = "some"
        /\ b.tr = Identity /\ a.tr = Identity
        /\ PlacementX(b, a, af) # 0 /\ PlacementY(b, a, af) # 0
        /\ af.base_key # af.accent_key

\* C8: with an anchor suffix, a named anchor missing on the base is fatal; one
\* missing on the accent is taken as (0,0) and is no error; with
\* ANCHOR=ANCHOR the first name is looked up on the base, the second on the accent.
C8_MissingAnchors ==
    \A b \in BaseOfCall, a \in RefForms, af \in AnchorForms :
        (IsComposeCall(b, a, af) /\ b.name \in DOMAIN raw /\ a.name \in DOMAIN raw) =>
            LET base == raw[b.name]
                acc == raw[a.name]
            IN /\ af.base_key \notin DOMAIN base.anchors => g_ret.tag = "panic_anchor"
               /\ af.base_key \in DOMAIN base.anchors =>
                     /\ g_ret.tag \in {"some", "panic_overflow"}
                     /\ g_ret.tag = "panic_overflow" => overflow_checks
                     /\ g_ret.tag = "some" =>
                           LET bp == AnchorUnder(base.anchors[af.base_key], b.tr)
                               ap == AnchorUnder(IF af.accent_key \in DOMAIN acc.anchors
                                                 THEN acc.anchors[af.accent_key]
                                                 ELSE <<0, 0>>, a.tr)
                           IN g_ret.glyph.strokes =
                                 SingleStrokes(b)
                                 \o Translated(SingleStrokes(a), W8(bp[1] - ap[1]), W8(bp[2] - ap[2]))

C8_Witness ==
    \E b \in BaseOfCall, a \in RefForms, af \in AnchorForms :
        /\ IsComposeCall(b, a, af) /\ b.name \in DOMAIN raw /\ a.name \in DOMAIN raw
        /\ af.base_key \in DOMAIN raw[b.name].anchors
        /\ af.accent_key \notin DOMAIN raw[a.name].anchors
        /\ DOMAIN raw[a.name].anchors # {}
        /\ g_ret.tag = "some"
        /\ g_ret.glyph.strokes # SingleStrokes(b) \o SingleStrokes(a)

\* C9 as stated: for any left=L and right=R in the int8 range, a horizontally
\* mirroring transform yields left = -R and right = -L, any other transform
\* left = L and right = R.
C9_MirroredBearings ==
    \A rf \in RefForms :
        (IsSingleCall(rf) /\ g_ret.tag = "some") =>
            IF rf.tr.scale_x = -1
            THEN g_ret.glyph.left = -raw[rf.name].right /\ g_ret.glyph.right = -raw[rf.name].left
            ELSE g_ret.glyph.left = raw[rf.name].left /\ g_ret.glyph.right = raw[rf.name].right

\* C9 amended: a non-mirroring transform yields left = L, right = R for any
\* L, R; a mirroring one yields left = -R, right = -L when L and R are in
\* -127..127; when L or R is -128 the mirroring build panics under overflow
\* checks and otherwise stores -128 for the negated bearing.
C9_MirroredBearingsInRange ==
    \A rf \in RefForms :
        (IsSingleCall(rf) /\ rf.name \in DOMAIN raw) =>
            LET L == raw[rf.name].left
                R == raw[rf.name].right
            IN IF rf.tr.scale_x = -1
               THEN /\ (overflow_checks /\ (L = -128 \/ R = -128)) => g_ret.tag = "panic_overflow"
                    /\ g_ret.tag = "some" =>
                          /\ g_ret.glyph.left = (IF R = -128 THEN -128 ELSE -R)
                          /\ g_ret.glyph.right = (IF L = -128 THEN -128 ELSE -L)
               ELSE g_ret.tag = "some" =>
                        g_ret.glyph.left = L /\ g_ret.glyph.right = R

C9_Witness ==
    \E rf \in RefForms :
        /\ IsSingleCall(rf) /\ g_ret.tag = "some" /\ rf.tr.scale_x = -1
        /\ raw[rf.name].left = -2 /\ raw[rf.name].right = 127
        /\ g_ret.glyph.left = -127 /\ g_ret.glyph.right = 2

(***************************************************************************)
(* Properties of parse_charlist                                            *)
(***************************************************************************)
\* this step is one loop iteration; it took the line line'
TookLine == lineno' = lineno + 1

\* a single-symbol line whose symbol, sigil stripped, is not in the table
UnresolvedSingleLines ==
    { <<TokPlus, rf.ref>> : rf \in { r \in RefForms : r.name = NameN } }

\* C5: a single-symbol line naming an unknown symbol does not abort the build:
\* the slot is left as it was and the loop goes on to the later lines.
C5_UnresolvedSingleNotFatal ==
    [][ (TookLine /\ line' \in UnresolvedSingleLines /\ NameN \notin DOMAIN raw)
            => (cl_status' = "running" /\ out' = out) ]_vars

\* C10: the table has 0x2800 slots: startchar 10239 is accepted, a + line that
\* follows stores its glyph at index 0x27FF, and startchar 0x2800 is fatal.
C10_Table0x2800Slots ==
    [][ /\ (TookLine /\ line' = <<TokStartchar, Num10239>>)
            => (cl_status' = "running" /\ codepoint' = 10239)
        /\ (TookLine /\ line' = <<TokPlus, NameA>> /\ codepoint = 10239)
            => (cl_status' = "running" /\ 10239 \in DOMAIN out')
        /\ (TookLine /\ line' = <<TokStartchar, Num10240>>)
            => cl_status' = "panic_startchar_range" ]_vars

\* the leading token of a line that is neither blank nor a comment
Command(l) == IF IsBlankOrComment(l) \/ StripComment(l) = <<>> THEN <<>> ELSE StripComment(l)[1]
\* the value written after the command
Operand(l) == DecimalValue(StripComment(l)[2])
\* the glyph a + line asks for
GlyphOfLine(l, symbols, checks) ==
    LET rest == Tail(StripComment(l))
    IN IF Len(rest) > 1 THEN compose_two(symbols, rest[1], JoinSpace(Tail(rest)), checks)
       ELSE build_single(symbols, rest[1], checks)
\* exactly slot cp is written, with the glyph of line l
WritesSlot(cp, l) ==
    /\ DOMAIN out' = DOMAIN out \cup {cp}
    /\ out'[cp] = GlyphOfLine(l, raw, overflow_checks).glyph
    /\ \A c \in DOMAIN out \ {cp} : out'[c] = out[c]
Processed == TookLine /\ cl_status' = "running"
SkipcodesAndStartchar ==
    /\ (Processed /\ Command(line') = TokSkipcodes)
          => (codepoint' = codepoint + Operand(line') /\ out' = out)
    /\ (Processed /\ Command(line') = TokStartchar) => codepoint' = Operand(line')
    /\ DOMAIN out' \subseteq 0 .. NUM_GLYPHS - 1

\* C11: every + line that is processed without error writes its glyph at the
\* codepoint current before the line and advances the cursor by 1, wherever
\* the cursor is; skipcodes n advances the cursor by n and writes no slot;
\* startchar c sets the cursor to c; no slot outside the table is written.
C11_PlusWritesAndAdvances ==
    [][ /\ (Processed /\ Command(line') = TokPlus)
              => (WritesSlot(codepoint, line') /\ codepoint' = codepoint + 1)
        /\ SkipcodesAndStartchar ]_vars

\* C11 (amended): as above for a + line reached with the cursor inside the
\* table; a + line reached with the cursor at or past the table size is
\* skipped, writing no slot and leaving the cursor where it is.
C11_PlusWritesAndAdvancesInTable ==
    [][ /\ (Processed /\ Command(line') = TokPlus /\ codepoint < NUM_GLYPHS)
              => (WritesSlot(codepoint, line') /\ codepoint' = codepoint + 1)
        /\ (TookLine /\ Command(line') = TokPlus /\ codepoint >= NUM_GLYPHS)
              => (cl_status' = "running" /\ out' = out /\ codepoint' = codepoint)
        /\ SkipcodesAndStartchar ]_vars

\* a glyph stored at 65 by a + line after startchar 65
C11_Witness ==
    /\ cl_status = "running" /\ lineno = 2 /\ Command(line) = TokPlus
    /\ codepoint = 66 /\ DOMAIN out = {65}

RecognisedCommands ==
    {TokStartchar, TokPlus, TokSkipcodes, TokPlusW, TokPlusP, TokPlusOpen, TokPlusBar, TokPlusClose}

\* C12: a line that is neither blank nor a comment and whose leading token is
\* not startchar, +, skipcodes, +w, +p, +(, +| or +) aborts the build with
\* the unsupported command error.
C12_OtherTokenFatal ==
    [][ (TookLine /\ Command(line') # <<>> /\ Command(line') \notin RecognisedCommands)
            => cl_status' = "panic_unsupported_command" ]_vars

\* C12 (amended): the same for a leading token that is not font either; a
\* font line is ignored, writing no slot and leaving the cursor where it is.
C12_OtherTokenFatalExceptFont ==
    [][ /\ (TookLine /\ Command(line') # <<>>
                 /\ Command(line') \notin RecognisedCommands \cup {TokFont})
              => (cl_status' = "panic_unsupported_command" /\ out' = out)
        /\ (TookLine /\ Command(line') = TokFont)
              => (cl_status' = "running" /\ out' = out /\ codepoint' = codepoint) ]_vars

\* the build was aborted on a line with an unknown leading token
C12_Witness ==
    /\ cl_status = "panic_unsupported_command" /\ Command(line) = TokBad

\* C20: a line starting with +w, +p or +( is processed without error, writes
\* no slot and advances the cursor by 1; a line starting with +| or +) is
\* processed without error, writes no slot and leaves the cursor unchanged.
C20_UnsupportedFormsSkipped ==
    [][ /\ (TookLine /\ Command(line') \in {TokPlusW, TokPlusP, TokPlusOpen})
              => (cl_status' = "running" /\ out' = out /\ codepoint' = codepoint + 1)
        /\ (TookLine /\ Command(line') \in {TokPlusBar, TokPlusClose})
              => (cl_status' = "running" /\ out' = out /\ codepoint' = codepoint) ]_vars

\* a +( line, then a +) line, taken after nothing else
C20_Witness ==
    /\ cl_status = "running" /\ lineno = 2 /\ Command(line) = TokPlusClose
    /\ codepoint = 1 /\ out = <<>>

(***************************************************************************)
(* Properties of parse_lib_file                                            *)
(***************************************************************************)
TookLibLine == lib_taken' # lib_taken
LastTaken == lib_taken[Len(lib_taken)]
IsDef(l) == LibCommand(l) = TokDEF
IsEnddef(l) == LibCommand(l) = TokENDDEF
\* the pairs <<i, j>> of a DEF line and the ENDDEF line that closes it
CompletedBlocks(lines) ==
    { b \in (1 .. Len(lines)) \X (1 .. Len(lines)) :
        /\ b[1] < b[2]
        /\ IsDef(lines[b[1]]) /\ IsEnddef(lines[b[2]])
        /\ \A k \in (b[1] + 1) .. (b[2] - 1) : ~IsDef(lines[k]) /\ ~IsEnddef(lines[k]) }
BlockName(lines, b) == lines[b[1]][2]
\* the symbol the lines i+1 .. j-1 of a block describe
RECURSIVE BlockSymbol(_, _, _, _)
BlockSymbol(lines, k, j, sym) ==
    IF k >= j THEN sym
    ELSE BlockSymbol(lines, k + 1, j,
                     ParseLibLine([glyphs |-> <<>>, current |-> <<sym>>, status |-> "running"],
                                  lines[k]).current[1])
ExactBlocks(lines, blocks, table) ==
    /\ DOMAIN table = { BlockName(lines, b) : b \in blocks }
    /\ \A b \in blocks :
          (\A c \in blocks : BlockName(lines, c) = BlockName(lines, b) => c[1] <= b[1])
             => table[BlockName(lines, b)]
                  = BlockSymbol(lines, b[1] + 1, b[2], Sym(BlockName(lines, b), <<>>, 0, 0, <<>>))
ExactlyCompletedBlocks == ExactBlocks(lib_taken, CompletedBlocks(lib_taken), glyphs)

\* C13: the parser has no open symbol or one; DEF while one is open, ENDDEF
\* while none is open and end of input while one is open are fatal; the table
\* changes only at an ENDDEF, by the insertion of the open symbol; a parse that
\* succeeds returns exactly the symbols of the completed DEF..ENDDEF blocks,
\* the last block of a name winning.
C13_TwoStateLibParser ==
    [][ /\ Len(current') <= 1
        /\ (TookLibLine /\ IsDef(LastTaken') /\ current # <<>>) => lib_status' = "Nested DEF"
        /\ (TookLibLine /\ IsEnddef(LastTaken') /\ current = <<>>)
              => lib_status' = "ENDDEF without DEF"
        /\ (~TookLibLine /\ lib_status' # lib_status /\ current # <<>>)
              => lib_status' = "Unterminated DEF block"
        /\ (glyphs' # glyphs)
              => /\ TookLibLine /\ IsEnddef(LastTaken') /\ current # <<>> /\ current' = <<>>
                 /\ DOMAIN glyphs' = DOMAIN glyphs \cup {current[1].name}
                 /\ glyphs'[current[1].name] = current[1]
                 /\ \A n \in DOMAIN glyphs \ {current[1].name} : glyphs'[n] = glyphs[n]
        /\ (lib_status' = "ok") => ExactlyCompletedBlocks' ]_vars

\* a successful parse of two blocks of one name, the second replacing the first
C13_Witness ==
    /\ lib_status = "ok"
    /\ lib_taken = <<<<TokDEF, NameA>>, StrokeLine, <<TokENDDEF>>, <<TokDEF, NameA>>, <<TokENDDEF>>>>
    /\ DOMAIN glyphs = {NameA} /\ glyphs[NameA].strokes = <<>>

(***************************************************************************)
(* Properties of parse_chrfile                                             *)
(***************************************************************************)
ProperPrefixes(bytes) == Prefixes(bytes) \ {bytes}

\* C14: the cursor never stands past the end of the buffer; a read, skip or
\* seek that would end past it is a panic, and no table is returned, whatever
\* the buffer: no truncation of a container whose bytes are all needed decodes.
C14_CursorWithinBuffer ==
    /\ cur_pos <= Len(input)
    /\ (chr.pc # "idle" /\ chr.end > Len(input)) => chr_status = "panic_eof"
    /\ (chr_status \in {"running", "done"} /\ chr.pc # "idle") => chr.end = cur_pos
    /\ input \in ProperPrefixes(WellFormed) => chr_status # "done"

\* a stroke path that runs into the end of the buffer
C14_Witness ==
    /\ chr_status = "panic_eof" /\ chr.pc = "path" /\ Len(chr.path) = 2
    /\ cur_pos = Len(input) /\ chr.end = Len(input) + 2

\* the 7-bit two's complement value of v in 0 .. 127
Decode7(v) == IF v >= 64 THEN v - 128 ELSE v
OpcodeAt(buf, at) == 2 * (buf[at + 1] \div 128) + (buf[at + 2] \div 128)
\* the points of the packed coordinates from byte `at` up to the first opcode 00
RECURSIVE PathAt(_, _)
PathAt(buf, at) ==
    IF OpcodeAt(buf, at) = OpEnd THEN <<>>
    ELSE <<[x |-> Decode7(buf[at + 1] % 128), y |-> -Decode7(buf[at + 2] % 128),
            pen |-> OpcodeAt(buf, at) = OpDraw]>> \o PathAt(buf, at + 2)
RECURSIVE ScanBeforeEnd(_, _)
ScanBeforeEnd(buf, at) ==
    /\ OpcodeAt(buf, at) # OpEnd
    /\ OpcodeAt(buf, at) = OpScan \/ ScanBeforeEnd(buf, at + 2)

\* C15: the path of each character is the sequence of its packed coordinates
\* up to the first opcode 00, pen up for opcode 10 and down for 11, x the
\* 7-bit value of byte 0 and y minus the 7-bit value of byte 1; opcode 01
\* before the terminator is fatal; move, draw, draw gives those three points.
C15_StrokePathDecoded ==
    /\ chr_status = "done" =>
          \A i \in 0 .. chr.num_characters - 1 :
             /\ ~ScanBeforeEnd(input, chr.data_section_start + chr.chr_offsets[i + 1])
             /\ file[chr.start_char + i].strokes
                  = PathAt(input, chr.data_section_start + chr.chr_offsets[i + 1])
    /\ (chr_status = "done" /\ input = ChrOf(<<PathMoveDrawDraw>>, 65, 10))
          => file[65].strokes = <<Pt(1, 2, FALSE), Pt(3, -4, TRUE), Pt(-5, 63, TRUE)>>

\* the container of one character drawn by move, draw, draw has been decoded
C15_Witness ==
    /\ chr_status = "done" /\ input = ChrOf(<<PathMoveDrawDraw>>, 65, 10)
    /\ Len(file[65].strokes) = 3

FirstPenUp(table) ==
    \A c \in DOMAIN table : table[c].strokes # <<>> => ~table[c].strokes[1].pen

\* C19: in every glyph of a table a decoder has produced, a stroke sequence
\* that is not empty starts with a point whose pen is up.
C19_FirstPointPenUp ==
    /\ chr_status = "done" => FirstPenUp(file)
    /\ hf_status = "done" => FirstPenUp(hf_result)
    /\ cl_status = "done" => FirstPenUp(out)

(***************************************************************************)
(* Properties of Glyph::from_line and load_file                            *)
(***************************************************************************)
IdField(rec) == ParseU16(Trim(Take(rec, IdWidth)))
Stored(rec) == IdField(rec).ok /\ IdField(rec).value < HERSHEY_NUM_GLYPHS
\* the coordinate pairs of a record, after its bearings
CoordPairs(rec) ==
    LET rest == Drop(rec, IdWidth + 1 + CountWidth + 2)
    IN [j \in 1 .. (Len(rest) \div 2) |-> <<rest[2 * j - 1], rest[2 * j]>>]
IsLift(pair) == pair = <<CharSpace, CharR>>
\* the points emitted for the pairs: pair j, when it is not a pen-lift, gives
\* the point after those of the real pairs before it, with the pen up exactly
\* when j is the first pair or pair j - 1 is a pen-lift
PenFollowsLifts(pairs, strokes) ==
    LET real == { j \in DOMAIN pairs : ~IsLift(pairs[j]) }
    IN /\ Len(strokes) = Cardinality(real)
       /\ \A j \in real :
             LET p == strokes[Cardinality({ i \in real : i <= j })]
             IN /\ p.x = W8(pairs[j][1] - CharR) /\ p.y = W8(pairs[j][2] - CharR)
                /\ p.pen = (j > 1 /\ ~IsLift(pairs[j - 1]))

\* C16: in a decoded record the pen is up at the start and after each
\* pen-lift pair and down otherwise: the first point and the first point
\* after a pen-lift have pen = false, every other point pen = true, and a
\* pen-lift pair emits no point.
C16_PenStateFollowsLifts ==
    (hf_status \in {"running", "done"} /\ full # <<>> /\ Stored(full))
        => PenFollowsLifts(CoordPairs(full), hf_result[IdField(full).value].strokes)

\* the record with two strokes, a double pen-lift and a third stroke
C16_Witness ==
    /\ hf_status = "running" /\ full = RecLifted
    /\ [k \in 1 .. 5 |-> hf_result[1].strokes[k].pen] = <<FALSE, TRUE, FALSE, FALSE, TRUE>>

TookRecord == hf_status = "running" /\ hf_lines # <<>> /\ Head(hf_lines) # <<>> /\ hf_lines' # hf_lines

\* C17: no record aborts the load: a record whose id field does not parse or
\* is not below 4000 leaves the table as it was, every other record is
\* decoded and stored in the slot of its id, replacing what was there.
C17_BadRecordsDropped ==
    [][ TookRecord =>
          /\ hf_status' = "running"
          /\ IF ~Stored(full') THEN hf_result' = hf_result
             ELSE /\ DOMAIN hf_result' = DOMAIN hf_result \cup {IdField(full').value}
                  /\ hf_result'[IdField(full').value] = from_line(full').glyph
                  /\ \A c \in DOMAIN hf_result \ {IdField(full').value} :
                        hf_result'[c] = hf_result[c] ]_vars

(***************************************************************************)
(* Properties of load_mapping                                              *)
(***************************************************************************)
TookMapLine == map_count' = map_count + 1
\* the number of ids of the range first..last, a last of 0 standing for first
RangeSize(first, last) ==
    IF last = 0 THEN 1 ELSE IF last >= first THEN last - first + 1 ELSE 0

\* C18: codepoints are given out consecutively from 32 on, across lines: a
\* line `first last` gives the ids first..last (an id is stored as a u16) to
\* the next last-first+1 codepoints in order, a last of 0 gives `first` to one
\* codepoint, an entry never given an id is 0, and nothing is stored for a
\* codepoint of 256 or more; `65 67` as first line gives 32, 33, 34 the ids
\* 65, 66, 67.
C18_ConsecutiveCodepoints ==
    [][ /\ \A r \in Ranges :
              (TookMapLine /\ map_line' = RangeLine(r[1], r[2]))
                 => /\ map_codepoint' = map_codepoint + RangeSize(r[1], r[2])
                    /\ DOMAIN mapping' = 0 .. (MAPPING_LEN - 1)
                    /\ \A c \in 0 .. (MAPPING_LEN - 1) :
                          mapping'[c] =
                             IF c >= map_codepoint /\ c < map_codepoint'
                             THEN (r[1] + (c - map_codepoint)) % (U16Max + 1)
                             ELSE mapping[c]
        /\ \A c \in 0 .. (MAPPING_LEN - 1) :
              (c < FIRST_CODEPOINT \/ c >= map_codepoint') => mapping'[c] = 0
        /\ (TookMapLine /\ map_count = 0 /\ map_line' = RangeLine(65, 67))
              => (mapping'[32] = 65 /\ mapping'[33] = 66 /\ mapping'[34] = 67
                    /\ map_codepoint' = 35) ]_vars

\* `65 67`, then `70 0`, then a range that runs past codepoint 255
C18_Witness ==
    /\ map_status = "running" /\ map_count = 3 /\ map_line = RangeLine(1, 300)
    /\ mapping[32] = 65 /\ mapping[34] = 67 /\ mapping[35] = 70 /\ mapping[36] = 1
    /\ mapping[255] = 220 /\ map_codepoint = 336

\* lines of two integers separated by one space, by two spaces or by a tab,
\* with their integers
SeparatedRanges ==
    { <<RangeLine(r[1], r[2]), r[1], r[2]>> : r \in Ranges }
    \cup { <<Codes(65) \o <<CharSpace, CharSpace>> \o Codes(67), 65, 67>>,
           <<Codes(65) \o <<9>> \o Codes(67), 65, 67>> }
\* non-empty lines that do not hold two integers
NoTwoIntegers == { Codes(65), <<120, CharSpace>> \o Codes(1) }

\* C23: every non-empty line of two integers separated by whitespace (one
\* space, several spaces or a tab) defines a range and advances the output
\* codepoint by its size; a line without two parseable integers changes
\* neither the result array nor the running codepoint.
C23_WhitespaceSeparated ==
    [][ /\ \A r \in SeparatedRanges :
              (TookMapLine /\ map_line' = r[1])
                 => /\ map_codepoint' = map_codepoint + RangeSize(r[2], r[3])
                    /\ \A c \in 0 .. (MAPPING_LEN - 1) :
                          mapping'[c] =
                             IF c >= map_codepoint /\ c < map_codepoint'
                             THEN (r[2] + (c - map_codepoint)) % (U16Max + 1)
                             ELSE mapping[c]
        /\ (TookMapLine /\ map_line' \in NoTwoIntegers)
              => (mapping' = mapping /\ map_codepoint' = map_codepoint) ]_vars

(***************************************************************************)
(* Properties of the .CHR header                                           *)
(***************************************************************************)
\* the offset of the first byte 26 after the magic, or 0 if there is none
DescEndAt(bytes) ==
    IF \E k \in 9 .. Len(bytes) : bytes[k] = 26
    THEN CHOOSE k \in 9 .. Len(bytes) :
            bytes[k] = 26 /\ \A j \in 9 .. (k - 1) : bytes[j] # 26
    ELSE 0
\* the header length the buffer records: the word after the description
HasHeaderLen(bytes) == DescEndAt(bytes) # 0 /\ DescEndAt(bytes) + 2 <= Len(bytes)
RecordedHeaderLen(bytes) == bytes[DescEndAt(bytes) + 1] + 256 * bytes[DescEndAt(bytes) + 2]
\* the decoder is past the check of the cursor against 0x90
PastHeader == chr_status = "done" \/ (chr_status = "running" /\ chr.pc \in {"tables", "chars", "path"})
\* the decoder has stopped with a fatal error
ChrFatal == chr_status \notin {"idle", "running", "done"}
\* the decoder has stopped
ChrStopped == chr_status # "running"

\* C21: decoding gets past the header, and so succeeds, only if the recorded
\* header length is exactly 0x80, whatever the length of the description;
\* with any other recorded header length a decode that has stopped has
\* stopped with a fatal error.
C21_HeaderLenMustBe0x80 ==
    /\ PastHeader => (HasHeaderLen(input) /\ RecordedHeaderLen(input) = 128)
    /\ (ChrStopped /\ chr_status # "idle" /\ HasHeaderLen(input) /\ RecordedHeaderLen(input) # 128)
          => ChrFatal

\* a buffer with valid magic, header end mark and `+` that records 0x81 has
\* failed at the position check
C21_Witness ==
    /\ chr_status = "panic_pos" /\ HasHeaderLen(input) /\ RecordedHeaderLen(input) = 129
    /\ input[130] = 43 /\ cur_pos = 145


(***************************************************************************)
(* Properties of parse_7bit_signed                                         *)
(***************************************************************************)
\* the 7-bit and the 8-bit two's complement representation of a value
Enc7(x) == (x + 128) % 128
Enc8(x) == (x + 256) % 256
Range7 == -64 .. 63
Parse7Called == coord_status = "done" /\ coord_call.fn = "parse_7bit_signed"
ReadCoordReturned == coord_status = "done" /\ coord_call.fn = "read_coord"

\* C22: for every byte b, parse_7bit_signed(b) is the low 7 bits of b read
\* as 7-bit two's complement: it lies in -64..63, does not depend on bit 7,
\* gives x back on the 7-bit encoding of every x in -64..63, and gives its
\* own output back on the 8-bit representation of that output; the negation
\* read_coord applies to y never overflows an i8.
C22_Parse7BitSigned ==
    /\ Parse7Called =>
          /\ coord_call.value = Decode7(coord_call.input % 128)
          /\ coord_call.value \in Range7
          /\ \A x \in Range7 : (coord_call.input % 128 = Enc7(x)) => coord_call.value = x
          /\ parse_7bit_signed((coord_call.input + 128) % 256) = coord_call.value
          /\ parse_7bit_signed(Enc8(coord_call.value)) = coord_call.value
    /\ ReadCoordReturned =>
          /\ coord_call.x = Decode7(coord_buf[1] % 128)
          /\ coord_call.y = -Decode7(coord_buf[2] % 128)
          /\ coord_call.y \in -63 .. 64
    /\ coord_status # "panic_overflow"

\* the byte 0xC0 has been decoded to -64, the least value
C22_Witness == Parse7Called /\ coord_call.input = 192 /\ coord_call.value = -64


(***************************************************************************)
(* Properties of the continuation lines of load_file                       *)
(***************************************************************************)
\* the concatenation of the first n of the lines
RECURSIVE Joined(_, _)
Joined(lines, n) == IF n = 0 THEN <<>> ELSE Joined(lines, n - 1) \o lines[n]
\* the first n of the lines make one logical record: all but the last are 72
\* characters long, and the last is not unless the input ends with it
OneRecord(lines, n) ==
    /\ n \in 1 .. Len(lines)
    /\ \A k \in 1 .. (n - 1) : Len(lines[k]) = 72
    /\ Len(lines[n]) # 72 \/ n = Len(lines)
TookEmptyLine == hf_status = "running" /\ hf_lines # <<>> /\ Head(hf_lines) = <<>> /\ hf_lines' # hf_lines

\* C24: a logical record is a physical line joined with the lines after it
\* for as long as the line appended last is exactly 72 characters long; a
\* line of any other length ends the record, a 72-character line at the end
\* of the input ends it without error, an empty line between records is
\* passed over, and the loading loop terminates on every input.
C24_ContinuationLines ==
    /\ [][ /\ TookRecord =>
                \E n \in 1 .. Len(hf_lines) :
                   /\ OneRecord(hf_lines, n)
                   /\ full' = Joined(hf_lines, n)
                   /\ hf_lines' = SubSeq(hf_lines, n + 1, Len(hf_lines))
           /\ (TookRecord /\ hf_lines' = <<>> /\ Len(hf_lines[Len(hf_lines)]) = 72
                 /\ Len(Head(hf_lines)) = 72)
                => hf_status' = "running"
           /\ TookEmptyLine =>
                (hf_lines' = Tail(hf_lines) /\ full' = full /\ hf_result' = hf_result
                   /\ hf_status' = hf_status) ]_vars
    /\ <>(hf_status # "running")

\* two lines of 72 characters and the input's end have made one record
C24_Witness ==
    /\ hf_status = "done" /\ hf_lines = <<>> /\ full = Unparsed(72) \o Unparsed(72)
    /\ hf_result = <<>>

====
